---- MODULE Spec2Model ----
(***************************************************************************)
(* Model of clientcloak's run-aware substitution engine                    *)
(* (src/src/clientcloak/docx_handler.py), of the reverse pass that         *)
(* uncloaker.py runs on top of it, of the replacement-dict and filename    *)
(* functions of cloaker.py, of steps 3 to 7 of cloak_document, and of the  *)
(* session store of sessions.py.                                           *)
(*                                                                         *)
(* Strings are sequences of one-character strings.  Offsets into strings   *)
(* are 0-based as in the Python source (a sequence is read at offset+1);   *)
(* run indexes are 1-based.  A run's text is a sequence of cells           *)
(* <<character, tag>>: the tag is bookkeeping that the program does not    *)
(* have, tag p > 0 marks the character that stood at flat offset p-1 of    *)
(* the paragraph before the pass, tag -j marks a character written for the *)
(* j-th match of the paragraph.                                            *)
(***************************************************************************)
EXTENDS Integers, Sequences, FiniteSets, TLC

VARIABLES
    doc,           \* the document: a sequence of paragraphs [kind, runs]
    input,         \* the document as it was handed to the first pass
    replacements,  \* the dict of the current pass: sequence of <<original, template>>
    match_case,    \* the match_case argument of the current pass
    pc,            \* position in replace_text_in_document
    cur,           \* index of the paragraph being processed
    char_map,      \* _replace_in_paragraph: char_map of the current paragraph
    matches,       \* _replace_preserving_format: list(pattern.finditer(full_text))
    k,             \* number of matches of the current paragraph still to splice
    total,         \* replace_text_in_document: total
    pass,          \* 1 = first call, 2 = the call made by uncloak_document,
                   \* 3 = a second call on an identical document,
                   \* 4 = a second call with the dict in another order
    first_repl,    \* the dict of the first pass (kept for the mapping file)
    last_call,     \* what the previous call left: [doc, total, outcome]
    cloak,         \* cloaker.py: the state of a call (config, mappings, ...)
    sessions       \* sessions.py: the sessions root, the clock, the last call

\* The variables of the substitution engine.
engine_vars == <<doc, input, replacements, match_case, pc, cur, char_map, matches, k,
                 total, pass, first_repl, last_call>>

vars == <<engine_vars, cloak, sessions>>

----------------------------------------------------------------------------
(* Bounds of the model. *)

MaxTextLen == 4

MaxRuns == 3

----------------------------------------------------------------------------
(* Characters and the str methods the engine uses. *)

LowerLetters == {"a", "b", "p", "s"}

UpperLetters == {"A", "B", "P", "S"}

ch_upper(c) ==
    CASE c = "a" -> "A" [] c = "b" -> "B" [] c = "p" -> "P" [] c = "s" -> "S"
      [] OTHER -> c

ch_lower(c) ==
    CASE c = "A" -> "a" [] c = "B" -> "b" [] c = "P" -> "p" [] c = "S" -> "s"
      [] OTHER -> c

ch_isupper(c) == c \in UpperLetters

ch_islower(c) == c \in LowerLetters

ch_iscased(c) == ch_isupper(c) \/ ch_islower(c)

ch_isspace(c) == c = " "

str_lower(s) == [i \in 1..Len(s) |-> ch_lower(s[i])]

str_upper(s) == [i \in 1..Len(s) |-> ch_upper(s[i])]

str_isupper(s) ==
    /\ \E i \in 1..Len(s) : ch_isupper(s[i])
    /\ \A i \in 1..Len(s) : ~ch_islower(s[i])

str_islower(s) ==
    /\ \E i \in 1..Len(s) : ch_islower(s[i])
    /\ \A i \in 1..Len(s) : ~ch_isupper(s[i])

str_istitle(s) ==
    /\ \E i \in 1..Len(s) : ch_iscased(s[i])
    /\ \A i \in 1..Len(s) :
        /\ ch_isupper(s[i]) => (i = 1 \/ ~ch_iscased(s[i-1]))
        /\ ch_islower(s[i]) => (i > 1 /\ ch_iscased(s[i-1]))

str_title(s) ==
    [i \in 1..Len(s) |->
        IF i > 1 /\ ch_iscased(s[i-1]) THEN ch_lower(s[i]) ELSE ch_upper(s[i])]

\* The first characters of the words of s.split().
word_starts(s) ==
    {i \in 1..Len(s) : ~ch_isspace(s[i]) /\ (i = 1 \/ ch_isspace(s[i-1]))}

----------------------------------------------------------------------------
(* Case transfer. *)

_is_bracketed_label(text) ==
    Len(text) >= 2 /\ text[1] = "[" /\ text[Len(text)] = "]"

\* Faulty variant: the characters beyond the length of original left as the
\* template spells them.
transfer_by_char_within_length(original, replacement) ==
    [i \in 1..Len(replacement) |->
        IF i > Len(original) THEN replacement[i]
        ELSE IF ch_isupper(original[i]) THEN ch_upper(replacement[i])
        ELSE IF ch_islower(original[i]) THEN ch_lower(replacement[i])
        ELSE replacement[i]]

\* Rule 6 of _transfer_case: the character-by-character loop.
transfer_by_char(original, replacement) ==
    LET result[i \in 0..Len(replacement)] ==
            IF i = 0 THEN <<>>
            ELSE LET ch == replacement[i]
                     prev == result[i-1]
                     out ==
                        IF i <= Len(original)
                        THEN IF ch_isupper(original[i]) THEN ch_upper(ch)
                             ELSE IF ch_islower(original[i]) THEN ch_lower(ch)
                             ELSE ch
                        ELSE IF prev # <<>> /\ ch_isupper(prev[Len(prev)])
                             THEN ch_upper(ch)
                             ELSE IF prev # <<>> /\ ch_islower(prev[Len(prev)])
                             THEN ch_lower(ch)
                             ELSE ch
                 IN Append(prev, out)
    IN result[Len(replacement)]

\* Faulty variant: _transfer_case without the loose-title rule (rule 4).
transfer_case_strict_title_only(original, replacement) ==
    IF original = <<>> \/ replacement = <<>> THEN replacement
    ELSE IF str_isupper(original) THEN str_upper(replacement)
    ELSE IF str_islower(original) THEN str_lower(replacement)
    ELSE IF str_istitle(original) THEN str_title(replacement)
    ELSE IF ch_isupper(original[1])
         THEN <<ch_upper(replacement[1])>> \o Tail(replacement)
    ELSE transfer_by_char(original, replacement)

_transfer_case(original, replacement) ==
    IF original = <<>> \/ replacement = <<>> THEN replacement
    ELSE IF str_isupper(original) THEN str_upper(replacement)
    ELSE IF str_islower(original) THEN str_lower(replacement)
    ELSE IF str_istitle(original) THEN str_title(replacement)
    ELSE IF /\ word_starts(original) # {}
            /\ \A i \in word_starts(original) : ch_isupper(original[i])
         THEN str_title(replacement)
    ELSE IF ch_isupper(original[1])
         THEN <<ch_upper(replacement[1])>> \o Tail(replacement)
    ELSE transfer_by_char(original, replacement)

----------------------------------------------------------------------------
(* The compiled matcher and the lookup table of replace_text_in_document. *)

keys(d) == [i \in 1..Len(d) |-> d[i][1]]

RECURSIVE sort_by_len_asc(_)
\* Faulty variant: sorted(seq, key=len), the reverse=True forgotten.
sort_by_len_asc(seq) ==
    IF seq = <<>> THEN <<>>
    ELSE LET shortest == CHOOSE i \in 1..Len(seq) :
                 /\ \A j \in 1..Len(seq) : Len(seq[i]) <= Len(seq[j])
                 /\ \A j \in 1..(i-1) : Len(seq[i]) < Len(seq[j])
             rest == [j \in 1..(Len(seq)-1) |->
                         IF j < shortest THEN seq[j] ELSE seq[j+1]]
         IN <<seq[shortest]>> \o sort_by_len_asc(rest)

RECURSIVE sort_by_len_desc(_)
\* sorted(seq, key=len, reverse=True): stable, equal lengths keep their order.
sort_by_len_desc(seq) ==
    IF seq = <<>> THEN <<>>
    ELSE LET longest == CHOOSE i \in 1..Len(seq) :
                 /\ \A j \in 1..Len(seq) : Len(seq[j]) <= Len(seq[i])
                 /\ \A j \in 1..(i-1) : Len(seq[j]) < Len(seq[i])
             rest == [j \in 1..(Len(seq)-1) |->
                         IF j < longest THEN seq[j] ELSE seq[j+1]]
         IN <<seq[longest]>> \o sort_by_len_desc(rest)

\* Faulty variant: the alternation built in dict order, not sorted.
unsorted_targets(d) == keys(d)

\* Faulty variant: the targets kept in a set of str, whose iteration order
\* (under hash randomisation) is not the same in two runs of the program.
targets_in_varying_order(d) ==
    IF pass = 3 THEN sort_by_len_asc(keys(d)) ELSE sort_by_len_desc(keys(d))

sorted_targets(d) == sort_by_len_desc(keys(d))

\* lookup = {k.lower(): v for k, v in replacements.items()}; a later entry
\* overwrites an earlier one with the same lowercased key.
lookup(d, key) ==
    LET hits == {i \in 1..Len(d) : str_lower(d[i][1]) = key}
        last == CHOOSE i \in hits : \A j \in hits : j <= i
    IN d[last][2]

\* key in lookup
has_key(d, key) == \E i \in 1..Len(d) : str_lower(d[i][1]) = key

\* Faulty variant: the literal compared without re.IGNORECASE.
matches_at_case_sensitive(text, pos, t) ==
    /\ pos + Len(t) <= Len(text)
    /\ \A j \in 1..Len(t) : text[pos + j] = t[j]

\* re.IGNORECASE match of the literal t at 0-based offset pos of text.
matches_at(text, pos, t) ==
    /\ pos + Len(t) <= Len(text)
    /\ \A j \in 1..Len(t) : ch_lower(text[pos + j]) = ch_lower(t[j])

\* The alternation tried at one offset: the first alternative that matches,
\* 0 when none does.
first_alternative(targets, text, pos) ==
    LET ok == {i \in 1..Len(targets) : matches_at(text, pos, targets[i])}
    IN IF ok = {} THEN 0 ELSE CHOOSE i \in ok : \A j \in ok : i <= j

RECURSIVE scan(_, _, _)
\* pattern.finditer from offset pos on: leftmost, non-overlapping matches.
\* An empty match is followed by a scan from the next offset.
scan(targets, text, pos) ==
    IF pos > Len(text) THEN <<>>
    ELSE LET alt == first_alternative(targets, text, pos)
         IN IF alt = 0 THEN scan(targets, text, pos + 1)
            ELSE LET len == Len(targets[alt])
                     m == [start |-> pos, end |-> pos + len,
                           group |-> SubSeq(text, pos + 1, pos + len)]
                 IN <<m>> \o scan(targets, text, IF len = 0 THEN pos + 1 ELSE pos + len)

\* The alternatives of the compiled pattern: "|".join of no target is the
\* empty pattern, which is the one alternative that matches the empty string.
alternatives(d) == IF d = <<>> THEN << <<>> >> ELSE sorted_targets(d)

finditer(d, text) == scan(alternatives(d), text, 0)

----------------------------------------------------------------------------
(* Runs, paragraphs and the character map. *)

run_text(run) == [i \in 1..Len(run) |-> run[i][1]]

RECURSIVE concat(_)
concat(seqs) == IF seqs = <<>> THEN <<>> ELSE Head(seqs) \o concat(Tail(seqs))

\* full_text = "".join(r.text for r in runs)
full_text(runs) == concat([i \in 1..Len(runs) |-> run_text(runs[i])])

RECURSIVE _build_char_map(_)
\* One <<run_index, offset>> pair per character; run indexes are 1-based.
_build_char_map(runs) ==
    IF runs = <<>> THEN <<>>
    ELSE LET n == Len(runs)
         IN _build_char_map(SubSeq(runs, 1, n - 1)) \o
            [i \in 1..Len(runs[n]) |-> <<n, i - 1>>]

\* The characters written for match number j.
written(new_text, j) == [i \in 1..Len(new_text) |-> <<new_text[i], 0 - j>>]

----------------------------------------------------------------------------
(* The span splicer. *)

Min(a, b) == IF a <= b THEN a ELSE b

\* s[:n] and s[n:] for n >= 0, clamped as Python slices are.
py_prefix(s, n) == SubSeq(s, 1, Min(n, Len(s)))

py_suffix(s, n) == SubSeq(s, Min(n, Len(s)) + 1, Len(s))

\* seq[i] raises IndexError unless -len(seq) <= i < len(seq).
py_index_ok(seq, i) == 0 - Len(seq) <= i /\ i < Len(seq)

\* Faulty variant: case transfer applied to bracketed labels too.
new_text_always_mirrored(d, mc, matched_text) ==
    LET new_text_template == lookup(d, str_lower(matched_text))
    IN IF mc THEN _transfer_case(matched_text, new_text_template)
       ELSE new_text_template

\* Faulty variant: match_case ignored, the case of the match always transferred.
new_text_ignoring_match_case(d, mc, matched_text) ==
    LET new_text_template == lookup(d, str_lower(matched_text))
    IN IF ~_is_bracketed_label(new_text_template)
       THEN _transfer_case(matched_text, new_text_template)
       ELSE new_text_template

\* The replacement text chosen for one match (lines 472-477).
new_text_for(d, mc, matched_text) ==
    LET new_text_template == lookup(d, str_lower(matched_text))
    IN IF mc /\ ~_is_bracketed_label(new_text_template)
       THEN _transfer_case(matched_text, new_text_template)
       ELSE new_text_template

_splice_single_run(runs, run_idx, offset, length, new_cells) ==
    LET text == runs[run_idx]
    IN [runs EXCEPT ![run_idx] =
          py_prefix(text, offset) \o new_cells \o py_suffix(text, offset + length)]

\* Faulty variant: the last run cut at last_offset, one character too early.
splice_two_runs_off_by_one(runs, first_idx, last_idx, cmap, match_start, match_end, new_cells) ==
    LET first_offset == cmap[match_start + 1][2]
        last_offset == cmap[match_end][2]
    IN [runs EXCEPT
          ![first_idx] = py_prefix(@, first_offset) \o new_cells,
          ![last_idx] = py_suffix(@, last_offset)]

\* Faulty variant: the rest of the last run moved into the first run.
splice_two_runs_merging(runs, first_idx, last_idx, cmap, match_start, match_end, new_cells) ==
    LET first_offset == cmap[match_start + 1][2]
        last_offset == cmap[match_end][2]
    IN [runs EXCEPT
          ![first_idx] = py_prefix(@, first_offset) \o new_cells \o
                         py_suffix(runs[last_idx], last_offset + 1),
          ![last_idx] = <<>>]

_splice_two_runs(runs, first_idx, last_idx, cmap, match_start, match_end, new_cells) ==
    LET first_offset == cmap[match_start + 1][2]
        last_offset == cmap[match_end][2]
    IN [runs EXCEPT
          ![first_idx] = py_prefix(@, first_offset) \o new_cells,
          ![last_idx] = py_suffix(@, last_offset + 1)]

\* Faulty variant: the middle runs removed from the paragraph instead of emptied.
splice_multi_runs_dropping_middle(runs, first_idx, last_idx, cmap, match_start, match_end, new_cells) ==
    LET first_offset == cmap[match_start + 1][2]
        last_offset == cmap[match_end][2]
    IN SubSeq(runs, 1, first_idx - 1) \o
       <<py_prefix(runs[first_idx], first_offset) \o new_cells>> \o
       <<py_suffix(runs[last_idx], last_offset + 1)>> \o
       SubSeq(runs, last_idx + 1, Len(runs))

\* Faulty variant: the runs between the first and the last left as they were.
splice_multi_runs_keeping_middle(runs, first_idx, last_idx, cmap, match_start, match_end, new_cells) ==
    LET first_offset == cmap[match_start + 1][2]
        last_offset == cmap[match_end][2]
    IN [runs EXCEPT
          ![first_idx] = py_prefix(@, first_offset) \o new_cells,
          ![last_idx] = py_suffix(@, last_offset + 1)]

_splice_multi_runs(runs, first_idx, last_idx, cmap, match_start, match_end, new_cells) ==
    LET first_offset == cmap[match_start + 1][2]
        last_offset == cmap[match_end][2]
    IN [i \in 1..Len(runs) |->
          IF i = first_idx THEN py_prefix(runs[i], first_offset) \o new_cells
          ELSE IF i > first_idx /\ i < last_idx THEN <<>>
          ELSE IF i = last_idx THEN py_suffix(runs[i], last_offset + 1)
          ELSE runs[i]]

RECURSIVE sub_from(_, _, _, _, _)
sub_from(ms, text, pos, d, mc) ==
    IF ms = <<>> THEN py_suffix(text, pos)
    ELSE LET m == Head(ms)
         IN SubSeq(text, pos + 1, m.start) \o new_text_for(d, mc, m.group) \o
            sub_from(Tail(ms), text, m.end, d, mc)

\* _replace_collapsing_runs: new_text = pattern.sub(_replacer, full_text).
collapse_text(d, mc, text) == sub_from(finditer(d, text), text, 0, d, mc)

----------------------------------------------------------------------------
(* Inputs. *)

\* Strings over alpha of length 0..n.
Strings(alpha, n) == UNION {[1..m -> alpha] : m \in 0..n}

\* The ways to cut a text of length n into MaxRuns runs, empty runs included.
Cuts(n) ==
    {c \in [0..MaxRuns -> 0..n] :
        /\ c[0] = 0
        /\ c[MaxRuns] = n
        /\ \A i \in 1..MaxRuns : c[i-1] <= c[i]}

make_runs(text, c) ==
    [r \in 1..MaxRuns |-> [i \in 1..(c[r] - c[r-1]) |-> <<text[c[r-1] + i], c[r-1] + i>>]]

\* A paragraph's run lists for one text; a paragraph may also have no run at all.
RunLists(text) ==
    {make_runs(text, c) : c \in Cuts(Len(text))} \cup (IF text = <<>> THEN {<<>>} ELSE {})

----------------------------------------------------------------------------
(* replace_text_in_document, one step per loop iteration. *)

runs_of(p) == doc[p].runs

\* Faulty variant: every header and footer yielded, linked or not.
yielded_also_when_linked(par) == TRUE

\* Whether the walk reaches a paragraph: body and table paragraphs always,
\* those of a header or footer only when _iter_headers_footers yields it.
yielded(par) ==
    par.kind \in {"body", "cell", "nested_cell"} \/ ~par.is_linked_to_previous

\* Faulty variant: no early return for the empty dict.
Call_without_empty_check ==
    /\ pc = "call"
    /\ pc' = "para"
    /\ cur' = 1
    /\ total' = 0
    /\ UNCHANGED <<doc, input, replacements, match_case, char_map, matches, k,
                   pass, first_repl, last_call, cloak, sessions>>

\* replace_text_in_document, lines 210-224: the empty dict returns 0 at once.
Call ==
    /\ pc = "call"
    /\ IF replacements = <<>>
       THEN /\ pc' = "done"
            /\ cur' = cur
       ELSE /\ pc' = "para"
            /\ cur' = 1
    /\ total' = 0
    /\ UNCHANGED <<doc, input, replacements, match_case, char_map, matches, k,
                   pass, first_repl, last_call, cloak, sessions>>

\* Faulty variant: a paragraph without a match is still written back as a
\* single run (the check of the match count forgotten).
EnterParagraph_collapsing_unmatched ==
    /\ pc = "para"
    /\ cur <= Len(doc)
    /\ yielded(doc[cur])
    /\ LET runs == runs_of(cur)
           text == full_text(runs)
           found == finditer(replacements, text)
       IN IF runs = <<>> \/ text = <<>> \/ found = <<>>
          THEN /\ cur' = cur + 1
               /\ doc' = [doc EXCEPT ![cur].runs = IF runs = <<>> THEN <<>> ELSE <<concat(runs)>>]
               /\ UNCHANGED <<pc, char_map, matches, k, cloak, sessions>>
          ELSE /\ char_map' = _build_char_map(runs)
               /\ matches' = found
               /\ k' = Len(found)
               /\ pc' = "splice"
               /\ cur' = cur
               /\ doc' = doc
    /\ UNCHANGED <<input, replacements, match_case, total, pass, first_repl, last_call, cloak, sessions>>

\* _replace_in_paragraph, lines 401-415, and the finditer of line 466.
EnterParagraph ==
    /\ pc = "para"
    /\ cur <= Len(doc)
    /\ yielded(doc[cur])
    /\ LET runs == runs_of(cur)
           text == full_text(runs)
           found == finditer(replacements, text)
       IN IF runs = <<>> \/ text = <<>> \/ found = <<>>
          THEN /\ cur' = cur + 1
               /\ UNCHANGED <<pc, char_map, matches, k, cloak, sessions>>
          ELSE /\ char_map' = _build_char_map(runs)
               /\ matches' = found
               /\ k' = Len(found)
               /\ pc' = "splice"
               /\ cur' = cur
    /\ UNCHANGED <<doc, input, replacements, match_case, total, pass, first_repl, last_call, cloak, sessions>>

\* _iter_headers_footers: a header or footer linked to the previous section
\* is not yielded, its paragraphs and tables are not visited.
SkipLinked ==
    /\ pc = "para"
    /\ cur <= Len(doc)
    /\ ~yielded(doc[cur])
    /\ cur' = cur + 1
    /\ UNCHANGED <<doc, input, replacements, match_case, pc, char_map, matches, k,
                   total, pass, first_repl, last_call, cloak, sessions>>

\* Faulty variant: the matches handled left to right.
this_match_left_to_right == matches[Len(matches) - k + 1]

\* The match the loop of line 471 handles next (right to left).
this_match == matches[k]

\* Line 473 raises KeyError when the lookup has no entry for the match.
key_error == ~has_key(replacements, str_lower(this_match.group))

\* Lines 484-485 raise IndexError when char_map[start] or char_map[end - 1]
\* is out of range.
index_error ==
    \/ ~py_index_ok(char_map, this_match.start)
    \/ ~py_index_ok(char_map, this_match.end - 1)

\* The exception leaves replace_text_in_document: nothing catches it.
Raise ==
    /\ pc = "splice" /\ k > 0
    /\ key_error \/ index_error
    /\ pc' = IF key_error THEN "KeyError" ELSE "IndexError"
    /\ UNCHANGED <<doc, input, replacements, match_case, cur, char_map, matches, k,
                   total, pass, first_repl, last_call, cloak, sessions>>

first_run_idx == char_map[this_match.start + 1][1]

last_run_idx == char_map[this_match.end][1]

span_count == last_run_idx - first_run_idx + 1

new_cells == written(new_text_for(replacements, match_case, this_match.group), k)

Spliced(new_runs) ==
    /\ doc' = [doc EXCEPT ![cur].runs = new_runs]
    /\ k' = k - 1
    /\ UNCHANGED <<input, replacements, match_case, pc, cur, char_map, matches,
                   total, pass, first_repl, last_call, cloak, sessions>>

SpliceSingle ==
    /\ pc = "splice" /\ k > 0
    /\ ~key_error /\ ~index_error
    /\ span_count = 1
    /\ Spliced(_splice_single_run(runs_of(cur), first_run_idx,
                                  char_map[this_match.start + 1][2],
                                  this_match.end - this_match.start, new_cells))

SpliceTwo ==
    /\ pc = "splice" /\ k > 0
    /\ ~key_error /\ ~index_error
    /\ span_count = 2
    /\ Spliced(_splice_two_runs(runs_of(cur), first_run_idx, last_run_idx, char_map,
                                this_match.start, this_match.end, new_cells))

\* Faulty variant: a match across three or more runs raises _FallbackNeeded and
\* the paragraph is rewritten by _replace_collapsing_runs as one run.
SpliceMulti_falling_back ==
    /\ pc = "splice" /\ k > 0
    /\ ~key_error /\ ~index_error
    /\ span_count > 2
    /\ LET new_text == collapse_text(replacements, match_case, full_text(input[cur].runs))
       IN doc' = [doc EXCEPT ![cur].runs = << [i \in 1..Len(new_text) |-> <<new_text[i], 0>>] >>]
    /\ k' = 0
    /\ UNCHANGED <<input, replacements, match_case, pc, cur, char_map, matches,
                   total, pass, first_repl, last_call, cloak, sessions>>

SpliceMulti ==
    /\ pc = "splice" /\ k > 0
    /\ ~key_error /\ ~index_error
    /\ span_count > 2
    /\ Spliced(_splice_multi_runs(runs_of(cur), first_run_idx, last_run_idx, char_map,
                                  this_match.start, this_match.end, new_cells))

\* return len(matches), added to total by the caller's loop; the locals of
\* _replace_in_paragraph are gone.
LeaveParagraph ==
    /\ pc = "splice" /\ k = 0
    /\ total' = total + Len(matches)
    /\ cur' = cur + 1
    /\ pc' = "para"
    /\ char_map' = <<>>
    /\ matches' = <<>>
    /\ UNCHANGED <<doc, input, replacements, match_case, k, pass, first_repl, last_call, cloak, sessions>>

\* return total
Return ==
    /\ pc = "para"
    /\ cur > Len(doc)
    /\ pc' = "done"
    /\ UNCHANGED <<doc, input, replacements, match_case, cur, char_map, matches, k,
                   total, pass, first_repl, last_call, cloak, sessions>>

\* uncloak_document: the mapping file holds placeholder -> original, the
\* inverse of the dict cloaking used ({v: k for k, v in d.items()}); a later
\* entry overwrites the value of an equal key and keeps the key's place.
invert(d) ==
    LET firsts == {i \in 1..Len(d) : \A j \in 1..(i-1) : d[j][2] # d[i][2]}
        RECURSIVE build(_)
        build(i) ==
            IF i > Len(d) THEN <<>>
            ELSE IF i \in firsts
                 THEN LET same == {j \in 1..Len(d) : d[j][2] = d[i][2]}
                          last == CHOOSE j \in same : \A j2 \in same : j2 <= j
                      IN <<<<d[i][2], d[last][1]>>>> \o build(i + 1)
                 ELSE build(i + 1)
    IN build(1)

\* The runs as load_document hands them to a pass: the same texts, every
\* character tagged with its flat position.
retag(runs) ==
    LET cmap == _build_char_map(runs)
        before(r) == Cardinality({q \in 1..Len(cmap) : cmap[q][1] < r})
    IN [r \in 1..Len(runs) |->
          [i \in 1..Len(runs[r]) |-> <<runs[r][i][1], before(r) + i>>]]

\* Faulty variant: the second pass run with the default match_case=True.
Uncloak_mirroring_case ==
    /\ pc = "done"
    /\ pass = 1
    /\ pass' = 2
    /\ replacements' = invert(replacements)
    /\ match_case' = TRUE
    /\ pc' = "call"
    /\ doc' = [p \in 1..Len(doc) |-> [doc[p] EXCEPT !.runs = retag(@)]]
    /\ last_call' = [doc |-> doc', total |-> total, outcome |-> pc]
    /\ UNCHANGED <<input, cur, char_map, matches, k, total, first_repl, cloak, sessions>>

\* uncloak_document, lines 71-83: the second pass, with match_case=False.
Uncloak ==
    /\ pc = "done"
    /\ pass = 1
    /\ pass' = 2
    /\ replacements' = invert(replacements)
    /\ match_case' = FALSE
    /\ pc' = "call"
    /\ doc' = [p \in 1..Len(doc) |-> [doc[p] EXCEPT !.runs = retag(@)]]
    /\ last_call' = [doc |-> doc', total |-> total, outcome |-> pc]
    /\ UNCHANGED <<input, cur, char_map, matches, k, total, first_repl, cloak, sessions>>

----------------------------------------------------------------------------
(* Specifications. *)

\* Dicts (in insertion order) with the alphabet of the texts they are run on.
LabelDict == << <<<<"a">>, <<"[", "S", "]">>>>, <<<<"a", "b">>, <<"[", "P", "]">>>> >>

OverlapDict == << <<<<"a", "b">>, <<"B", "a">>>>, <<<<"b", "a", "b">>, <<"b">>>> >>

CaseDict == << <<<<"a", "A", "a">>, <<"p", " ", "s", "P">>>> >>

TokenDict == << <<<<"a">>, <<"[", "B", "]">>>> >>

NestedDict == << <<<<"a">>, <<"[", "]">>>>, <<<<"b">>, <<"[", "[", "]", "]">>>> >>

SingleTokenDict == << <<<<"a">>, <<"[", "S", "]">>>> >>

Scenarios ==
    { [repl |-> LabelDict, alpha |-> {"a", "A", "b"}],
      [repl |-> OverlapDict, alpha |-> {"a", "b", "A"}],
      [repl |-> CaseDict, alpha |-> {"a", "A"}] }

RoundTripScenarios ==
    { [repl |-> LabelDict, alpha |-> {"a", "A", "b"}],
      [repl |-> TokenDict, alpha |-> {"a", "b", "[", "]"}],
      [repl |-> NestedDict, alpha |-> {"a", "[", "]"}],
      [repl |-> SingleTokenDict, alpha |-> {"a", "b", "[", "]"}] }

InitWith(scenarios, cases) ==
    \E sc \in scenarios :
      \E text \in Strings(sc.alpha, MaxTextLen) :
        \E runs \in RunLists(text) :
          /\ doc = << [kind |-> "body", is_linked_to_previous |-> FALSE, runs |-> runs] >>
          /\ input = doc
          /\ replacements = sc.repl
          /\ first_repl = sc.repl
          /\ match_case \in cases
          /\ pc = "call"
          /\ cur = 0
          /\ char_map = <<>>
          /\ matches = <<>>
          /\ k = 0
          /\ total = 0
          /\ pass = 1
          /\ last_call = [doc |-> <<>>, total |-> 0, outcome |-> "none"]
          /\ cloak = [pc |-> "idle"]
          /\ sessions = [pc |-> "idle"]

Init == InitWith(Scenarios, BOOLEAN)

Next ==
    \/ Call
    \/ EnterParagraph
    \/ SpliceSingle
    \/ SpliceTwo
    \/ SpliceMulti
    \/ LeaveParagraph
    \/ Return

Spec == Init /\ [][Next]_vars

\* Cloak with match_case=True, then uncloak with the mapping.
InitRoundTrip == InitWith(RoundTripScenarios, {TRUE})

NextRoundTrip == Next \/ Uncloak

SpecRoundTrip == InitRoundTrip /\ [][NextRoundTrip]_vars

\* A second call on an identical document, with the same dict and the same
\* match_case; the outcome of the first call is kept for comparison.
CallAgain ==
    /\ pc \in {"done", "KeyError", "IndexError"}
    /\ pass = 1
    /\ pass' = 3
    /\ last_call' = [doc |-> doc, total |-> total, outcome |-> pc]
    /\ doc' = input
    /\ pc' = "call"
    /\ UNCHANGED <<input, replacements, match_case, cur, char_map, matches, k,
                   total, first_repl, cloak, sessions>>

\* Run lists for the run texts given, every character tagged with its flat
\* position.
tagged(texts) ==
    retag([r \in 1..Len(texts) |-> [i \in 1..Len(texts[r]) |-> <<texts[r][i], 0>>]])

NoRuns == <<>>

EmptyRuns == tagged(<< <<>>, <<>> >>)

NoMatch == tagged(<< <<"b">> >>)

OneMatch == tagged(<< <<"b", "a">>, <<"b">> >>)

TwoMatches == tagged(<< <<"A">>, <<>>, <<"b", "a">> >>)

\* The paragraphs of a document in the order the walk of lines 226-239
\* reaches them: body, table cells, cells of nested tables, then the
\* paragraphs and table cells of each header and footer.
DocKinds == <<"body", "cell", "nested_cell", "header", "header_cell", "footer">>

ParagraphChoices(kind) ==
    CASE kind = "body" -> {NoRuns, EmptyRuns, OneMatch, TwoMatches}
      [] kind = "cell" -> {NoMatch, OneMatch, TwoMatches}
      [] kind = "nested_cell" -> {NoRuns, OneMatch, TwoMatches}
      [] kind = "header" -> {EmptyRuns, OneMatch, TwoMatches}
      [] kind = "header_cell" -> {NoMatch, OneMatch}
      [] OTHER -> {NoMatch, OneMatch, TwoMatches}

EmptyDict == <<>>

EmptyOriginalDict == << <<<<>>, <<"[", "S", "]">>>>, <<<<"a">>, <<"[", "P", "]">>>> >>

DocDicts == {LabelDict, EmptyDict, EmptyOriginalDict}

\* A whole document: one paragraph of each kind; the header (with its table)
\* and the footer are each linked to the previous section or not.
InitDoc ==
    \E d \in DocDicts :
      \E header_linked \in BOOLEAN, footer_linked \in BOOLEAN :
        \E choice \in [1..Len(DocKinds) -> UNION {ParagraphChoices(DocKinds[i]) : i \in 1..Len(DocKinds)}] :
          /\ \A i \in 1..Len(DocKinds) : choice[i] \in ParagraphChoices(DocKinds[i])
          /\ doc = [i \in 1..Len(DocKinds) |->
                       [kind |-> DocKinds[i],
                        is_linked_to_previous |->
                            CASE DocKinds[i] \in {"header", "header_cell"} -> header_linked
                              [] DocKinds[i] = "footer" -> footer_linked
                              [] OTHER -> FALSE,
                        runs |-> choice[i]]]
          /\ input = doc
          /\ replacements = d
          /\ first_repl = d
          /\ match_case \in BOOLEAN
          /\ pc = "call"
          /\ cur = 0
          /\ char_map = <<>>
          /\ matches = <<>>
          /\ k = 0
          /\ total = 0
          /\ pass = 1
          /\ last_call = [doc |-> <<>>, total |-> 0, outcome |-> "none"]
          /\ cloak = [pc |-> "idle"]
          /\ sessions = [pc |-> "idle"]

NextDoc == Next \/ SkipLinked \/ Raise \/ CallAgain

SpecDoc == InitDoc /\ [][NextDoc]_vars

----------------------------------------------------------------------------
(* Vocabulary of the properties. *)

Paragraphs == 1..Len(doc)

input_text(p) == full_text(input[p].runs)

output_text(p) == full_text(doc[p].runs)

\* The matches the compiled matcher finds in a paragraph of the input.
input_matches(p) == finditer(first_repl, input_text(p))

\* The characters that were written for match j of paragraph p, in run order.
RECURSIVE chars_tagged(_, _)
chars_tagged(cells, tag) ==
    IF cells = <<>> THEN <<>>
    ELSE (IF Head(cells)[2] = tag THEN <<Head(cells)[1]>> ELSE <<>>) \o
         chars_tagged(Tail(cells), tag)

written_for(p, j) == chars_tagged(concat(doc[p].runs), 0 - j)

\* The engine's precondition on a dict: originals non-empty and unique when
\* compared case-insensitively.
ValidDict(d) ==
    /\ \A i \in 1..Len(d) : d[i][1] # <<>>
    /\ \A i, j \in 1..Len(d) : str_lower(d[i][1]) = str_lower(d[j][1]) => i = j

\* needle occurs at 0-based offset pos of text, compared case-insensitively.
OccursAt(needle, text, pos) ==
    /\ pos + Len(needle) <= Len(text)
    /\ str_lower(SubSeq(text, pos + 1, pos + Len(needle))) = str_lower(needle)

OccursIn(needle, text) == \E pos \in 0..Len(text) : OccursAt(needle, text, pos)

\* The number of runs a match of the current paragraph touches.
span_of(m) == char_map[m.end][1] - char_map[m.start + 1][1] + 1

----------------------------------------------------------------------------
(* C1 -- after replace_text_in_document, the concatenation of every        *)
(* paragraph's run texts equals the flattened input text with each         *)
(* leftmost non-overlapping match replaced by its cased replacement in one *)
(* left-to-right pass (the text the fallback collapser computes), for any  *)
(* split into runs and any dict of non-empty, case-insensitively unique    *)
(* originals.                                                              *)
C1_RunsSpellSinglePassText ==
    (pc = "done" /\ pass = 1 /\ ValidDict(replacements)) =>
        \A p \in Paragraphs :
            output_text(p) = collapse_text(replacements, match_case, input_text(p))

\* A finished pass over a paragraph with two matches, one of them across
\* three runs.
C1_Witness ==
    /\ pc = "done" /\ pass = 1 /\ ValidDict(replacements) /\ total >= 2
    /\ LET cmap == _build_char_map(input[1].runs)
       IN \E j \in 1..Len(input_matches(1)) :
             cmap[input_matches(1)[j].end][1] - cmap[input_matches(1)[j].start + 1][1] >= 2
    /\ output_text(1) = collapse_text(replacements, match_case, input_text(1))
    /\ output_text(1) # input_text(1)

----------------------------------------------------------------------------
(* C2 -- after a forward pass (match_case=True) no paragraph text contains *)
(* a case-insensitive occurrence of an original.                           *)

Originals(d) == {d[i][1] : i \in 1..Len(d)}

Templates(d) == {d[i][2] : i \in 1..Len(d)}

Chars(strs) == UNION {{ch_lower(s[i]) : i \in 1..Len(s)} : s \in strs}

NoOriginalLeft ==
    \A p \in Paragraphs : \A o \in Originals(replacements) : ~OccursIn(o, output_text(p))

\* The claim as stated: it asks only that no template contains an original.
C2_NoOriginalLeft_AsStated ==
    (/\ pc = "done" /\ pass = 1 /\ match_case
     /\ \A t \in Templates(replacements) : \A o \in Originals(replacements) :
            ~OccursIn(o, t))
    => NoOriginalLeft

\* Templates that cannot combine with the text around them into an original.
ForeignTemplates(d) ==
    /\ <<>> \notin Originals(d)
    /\ <<>> \notin Templates(d)
    /\ Chars(Templates(d)) \cap Chars(Originals(d)) = {}

\* C2, amended: for dicts of non-empty originals whose templates are
\* non-empty and share no character, in any letter case, with an original,
\* no original occurs (case-insensitively) in any paragraph after the
\* forward pass.
C2_NoOriginalLeft ==
    (pc = "done" /\ pass = 1 /\ match_case /\ ForeignTemplates(replacements))
    => NoOriginalLeft

\* A forward pass that replaced two occurrences, one of them spelled in
\* another letter case than its dict key.
C2_Witness ==
    /\ pc = "done" /\ pass = 1 /\ match_case /\ ForeignTemplates(replacements)
    /\ total >= 2
    /\ \E m \in {input_matches(1)[j] : j \in 1..Len(input_matches(1))} :
          m.group \notin Originals(replacements)
    /\ NoOriginalLeft

----------------------------------------------------------------------------
(* C3 -- round trip: cloak with D (match_case=True), then uncloak with the *)
(* inverse of D (match_case=False).                                        *)

IsToken(t) == _is_bracketed_label(t)

TokensDistinct(d) == \A i, j \in 1..Len(d) : str_lower(d[i][2]) = str_lower(d[j][2]) => i = j

TokensAbsentFromInput(d) ==
    \A p \in 1..Len(input) : \A t \in Templates(d) : ~OccursIn(t, input_text(p))

RoundTripRestores == \A p \in Paragraphs : output_text(p) = input_text(p)

\* The claim as stated.
C3_RoundTrip_AsStated ==
    (/\ pc = "done" /\ pass = 2
     /\ \A t \in Templates(first_repl) : IsToken(t)
     /\ TokensDistinct(first_repl)
     /\ TokensAbsentFromInput(first_repl))
    => RoundTripRestores

\* A token "[name]" whose name holds no bracket.
PlainToken(t) ==
    /\ IsToken(t)
    /\ \A i \in 2..(Len(t) - 1) : t[i] \notin {"[", "]"}

\* Every occurrence the forward pass replaces is spelled exactly as a key.
MatchesSpelledAsKeys ==
    \A p \in 1..Len(input) : \A j \in 1..Len(input_matches(p)) :
        input_matches(p)[j].group \in Originals(first_repl)

\* C3, amended: when, in addition, the originals are non-empty and unique
\* case-insensitively, the tokens have the form "[name]" with no bracket in
\* name and are distinct and absent from I case-insensitively, and every
\* occurrence matched in I is spelled exactly as its dict key, the round
\* trip yields paragraph texts identical to I.
C3_RoundTrip ==
    (/\ pc = "done" /\ pass = 2
     /\ ValidDict(first_repl)
     /\ \A t \in Templates(first_repl) : PlainToken(t)
     /\ TokensDistinct(first_repl)
     /\ TokensAbsentFromInput(first_repl)
     /\ MatchesSpelledAsKeys)
    => RoundTripRestores

\* Both passes replaced something, the input held brackets of its own, and
\* the text came back.
C3_Witness ==
    /\ pc = "done" /\ pass = 2 /\ total >= 1
    /\ ValidDict(first_repl)
    /\ \A t \in Templates(first_repl) : PlainToken(t)
    /\ TokensAbsentFromInput(first_repl)
    /\ MatchesSpelledAsKeys
    /\ Len(input_matches(1)) >= 1
    /\ OccursIn(<<"[">>, input_text(1))
    /\ RoundTripRestores

----------------------------------------------------------------------------
(* C4 -- a placeholder token is written verbatim: whenever the template    *)
(* selected for a match is a bracketed label, the characters written into  *)
(* the runs for that match are the template exactly, whatever the casing   *)
(* of the match, the value of match_case and the number of runs spanned.   *)

template_of(m) == lookup(replacements, str_lower(m.group))

\* The matches of the current paragraph that have been spliced.
SplicedMatches == IF pc = "splice" THEN (k + 1)..Len(matches) ELSE {}

C4_PlaceholderVerbatim ==
    \A j \in SplicedMatches :
        _is_bracketed_label(template_of(matches[j])) =>
            written_for(cur, j) = template_of(matches[j])

\* A lowercase match across runs, under match_case=True, kept the token's
\* uppercase letter.
C4_Witness ==
    /\ pc = "splice" /\ match_case
    /\ \E j \in SplicedMatches :
          /\ span_of(matches[j]) >= 2
          /\ str_islower(matches[j].group)
          /\ _is_bracketed_label(template_of(matches[j]))
          /\ written_for(cur, j) = template_of(matches[j])
          /\ written_for(cur, j) # str_lower(template_of(matches[j]))

----------------------------------------------------------------------------
(* C5 -- longest-match precedence at one position: when two originals both *)
(* match starting at the same character, the longer one is the one         *)
(* replaced there.  With {"ab": "[P]", "a": "[S]"} (the shape of "Acme     *)
(* Corporation" / "Acme") the text "aba" becomes "[P][S]", never "[S]b".   *)

\* The originals that occur at offset pos of text.
OriginalsAt(d, text, pos) == {o \in Originals(d) : OccursAt(o, text, pos)}

C5_LongestAtPosition ==
    /\ (pc = "splice" /\ ValidDict(replacements)) =>
          \A j \in 1..Len(matches) :
             LET m == matches[j]
                 here == OriginalsAt(replacements, input_text(cur), m.start)
                 longest == CHOOSE o \in here : \A o2 \in here : Len(o2) <= Len(o)
             IN /\ Len(m.group) = Len(longest)
                /\ j \in SplicedMatches =>
                     written_for(cur, j) =
                        new_text_for(replacements, match_case,
                                     SubSeq(input_text(cur), m.start + 1,
                                            m.start + Len(longest)))
    /\ (pc = "done" /\ pass = 1 /\ first_repl = LabelDict
          /\ input_text(1) = <<"a", "b", "a">>) =>
          /\ output_text(1) = <<"[", "P", "]", "[", "S", "]">>
          /\ total = 2

\* "aba" under the label dict: the longer original was taken at offset 0.
C5_Witness ==
    /\ pc = "done" /\ pass = 1 /\ first_repl = LabelDict
    /\ input_text(1) = <<"a", "b", "a">>
    /\ Cardinality(OriginalsAt(first_repl, input_text(1), 0)) = 2
    /\ output_text(1) = <<"[", "P", "]", "[", "S", "]">>

----------------------------------------------------------------------------
(* C6 -- overlap resolution between occurrences of two different           *)
(* originals.                                                              *)

\* The occurrences <<offset, original>> of other originals that overlap match m.
OverlappingOccurrences(d, text, m) ==
    {occ \in (0..Len(text)) \X Originals(d) :
        /\ OccursAt(occ[2], text, occ[1])
        /\ str_lower(occ[2]) # str_lower(m.group)
        /\ occ[1] < m.end
        /\ m.start < occ[1] + Len(occ[2])}

\* The claim as stated: of two overlapping occurrences, wherever they start,
\* the one selected is the one of the longer original.
C6_LongerOverlapWins_AsStated ==
    pc = "splice" =>
        \A j \in 1..Len(matches) :
            \A occ \in OverlappingOccurrences(replacements, input_text(cur), matches[j]) :
                Len(occ[2]) <= Len(matches[j].group)

\* Where the scan resumed before it found match j.
scan_from(j) == IF j = 1 THEN 0 ELSE matches[j-1].end

\* C6, amended: of the occurrences the scan can still select (those that
\* do not start inside an earlier selected match), the one selected is the
\* one that starts first, whatever its length; only among occurrences that
\* start at the same offset is it the one of the longer original.
C6_LeftmostThenLongest ==
    (pc = "splice" /\ ValidDict(replacements)) =>
        \A j \in 1..Len(matches) :
            \A occ \in OverlappingOccurrences(replacements, input_text(cur), matches[j]) :
                occ[1] >= scan_from(j) =>
                    \/ occ[1] > matches[j].start
                    \/ occ[1] = matches[j].start /\ Len(occ[2]) < Len(matches[j].group)

\* A selected and replaced match that an occurrence of a longer original,
\* starting later, overlaps.
C6_Witness ==
    /\ pc = "splice" /\ k = 0
    /\ \E j \in 1..Len(matches) :
          \E occ \in OverlappingOccurrences(replacements, input_text(cur), matches[j]) :
              /\ occ[1] > matches[j].start
              /\ Len(occ[2]) > Len(matches[j].group)
              /\ written_for(cur, j) =
                    new_text_for(replacements, match_case, matches[j].group)

----------------------------------------------------------------------------
(* C7 -- case mirroring in the forward direction (match_case=True, the     *)
(* template not a placeholder), rules taken in the order the code applies  *)
(* them: an all-uppercase match is replaced by the template uppercased, an *)
(* all-lowercase match by the template lowercased, and a match that is     *)
(* neither but in strict or loose title case by the template title-cased,  *)
(* whatever the casing of the dict key and of the template.                *)

LooseTitle(s) ==
    /\ word_starts(s) # {}
    /\ \A i \in word_starts(s) : ch_isupper(s[i])

C7_CaseMirrored ==
    match_case =>
        \A j \in SplicedMatches :
            LET g == matches[j].group
                t == template_of(matches[j])
            IN ~_is_bracketed_label(t) =>
                /\ str_isupper(g) => written_for(cur, j) = str_upper(t)
                /\ str_islower(g) => written_for(cur, j) = str_lower(t)
                /\ (~str_isupper(g) /\ (str_istitle(g) \/ LooseTitle(g))) =>
                       written_for(cur, j) = str_title(t)

\* A loose-title match ("AAa") of a key spelled "aAa" was replaced by the
\* title-cased template, which is none of the template's other casings.
C7_Witness ==
    /\ pc = "splice" /\ match_case
    /\ \E j \in SplicedMatches :
          LET g == matches[j].group
              t == template_of(matches[j])
          IN /\ ~_is_bracketed_label(t)
             /\ ~str_isupper(g) /\ ~str_istitle(g) /\ LooseTitle(g)
             /\ g \notin Originals(replacements)
             /\ written_for(cur, j) = str_title(t)
             /\ written_for(cur, j) \notin {t, str_upper(t), str_lower(t)}

----------------------------------------------------------------------------
(* C8 -- with match_case=False every match is replaced by its template     *)
(* exactly as the dict stores it, for every casing of the matched text and *)
(* for single-run and cross-run matches alike.                             *)

C8_TemplateVerbatim ==
    ~match_case =>
        \A j \in SplicedMatches : written_for(cur, j) = template_of(matches[j])

\* An all-uppercase match across runs was replaced by a template that holds
\* a lowercase letter.
C8_Witness ==
    /\ pc = "splice" /\ ~match_case
    /\ \E j \in SplicedMatches :
          /\ span_of(matches[j]) >= 2
          /\ str_isupper(matches[j].group)
          /\ ~_is_bracketed_label(template_of(matches[j]))
          /\ written_for(cur, j) = template_of(matches[j])
          /\ written_for(cur, j) # str_upper(template_of(matches[j]))

----------------------------------------------------------------------------
(* C9 -- the number of runs of every paragraph is the same during and      *)
(* after a pass as before it: runs are rewritten, possibly to the empty    *)
(* string, never inserted, removed or merged.                              *)

----------------------------------------------------------------------------
(* C10 -- formatting outside the replaced region is untouched: every       *)
(* character that lies outside all matches stays in the run it was in, and *)
(* the characters that remain in a run keep their relative order.          *)

\* The flat positions (1-based) of paragraph p that no match covers.
Unmatched(p) ==
    {q \in 1..Len(input_text(p)) :
        \A j \in 1..Len(input_matches(p)) :
            ~(input_matches(p)[j].start < q /\ q <= input_matches(p)[j].end)}

\* The run that held flat position q of paragraph p before the pass.
input_run_of(p, q) == _build_char_map(input[p].runs)[q][1]

C10_OutsideUntouched ==
    pass = 1 =>
        \A p \in Paragraphs :
            LET runs == doc[p].runs
                text == input_text(p)
                ms == finditer(first_repl, text)
                cmap == _build_char_map(input[p].runs)
                outside == {q \in 1..Len(text) :
                               \A j \in 1..Len(ms) : ~(ms[j].start < q /\ q <= ms[j].end)}
            IN /\ \A q \in outside :
                     \E i \in 1..Len(runs[cmap[q][1]]) :
                         runs[cmap[q][1]][i] = <<text[q], q>>
               /\ \A r \in 1..Len(runs) :
                     \A i1, i2 \in 1..Len(runs[r]) :
                         (i1 < i2 /\ runs[r][i1][2] > 0 /\ runs[r][i2][2] > 0)
                             => runs[r][i1][2] < runs[r][i2][2]

\* Two matches touched one run: the earlier one ends in the run in which the
\* later one starts, and an unmatched character of that run is still in it.
C10_Witness ==
    /\ pc = "splice" /\ k = 0 /\ Len(matches) >= 2
    /\ \E j \in 1..(Len(matches) - 1) :
          /\ span_of(matches[j]) >= 2
          /\ char_map[matches[j].end][1] = char_map[matches[j+1].start + 1][1]
          /\ \E q \in Unmatched(cur) : input_run_of(cur, q) = char_map[matches[j].end][1]
    /\ C10_OutsideUntouched

----------------------------------------------------------------------------
(* C11 -- the count returned by replace_text_in_document equals the total  *)
(* number of non-overlapping matches the compiled matcher finds in the     *)
(* texts of the processed paragraphs: body paragraphs, paragraphs of table *)
(* cells and of nested tables, and the paragraphs and tables of the        *)
(* headers and footers that are not linked to the previous section; the    *)
(* paragraphs of a linked header or footer add nothing to the count and    *)
(* are not modified.  (For dicts of non-empty, case-insensitively unique   *)
(* originals.)                                                             *)

\* A paragraph that belongs to a header or footer linked to the previous section.
Inherited(par) ==
    par.kind \in {"header", "header_cell", "footer"} /\ par.is_linked_to_previous

\* The number of matches of dict d in the paragraphs 1..n of the input that
\* are not inherited.
RECURSIVE matches_upto(_, _)
matches_upto(d, n) ==
    IF n = 0 THEN 0
    ELSE matches_upto(d, n - 1) +
         (IF Inherited(input[n]) THEN 0 ELSE Len(finditer(d, input_text(n))))

----------------------------------------------------------------------------
(* C12 -- with an empty replacement dictionary replace_text_in_document    *)
(* returns 0 and leaves every run's text unchanged, for match_case True    *)
(* and False: the call goes from its entry straight to its return, no      *)
(* paragraph is entered and nothing is raised.                             *)

C12_EmptyDictNoOp ==
    replacements = <<>> =>
        /\ pc \in {"call", "done"}
        /\ doc = input
        /\ pc = "done" => total = 0

\* The call returned for a document that holds text in every kind of
\* container.
C12_Witness ==
    /\ replacements = <<>> /\ pc = "done" /\ pass = 1 /\ ~match_case
    /\ \A p \in Paragraphs : input_text(p) # <<>>
    /\ total = 0
    /\ doc = input

----------------------------------------------------------------------------
(* C13 -- text that no dictionary original matches is never changed: a     *)
(* paragraph whose flattened text holds no occurrence of an original has   *)
(* none of its run texts written and adds nothing to the count; and in the *)
(* reverse pass a bracketed token "[name]" (no bracket in name) that has   *)
(* no entry in the inverted dictionary, letter case ignored, is part of no *)
(* counted match and keeps its exact text.                                 *)

\* The document as it was handed to the call in progress.
call_input == IF pass = 2 THEN last_call.doc ELSE input

call_text(p) == full_text(call_input[p].runs)

NoOccurrence(d, text) == \A o \in Originals(d) : ~OccursIn(o, text)

\* The occurrences <<offset, length>> in paragraph p of tokens that are no
\* key of the dict of the call.
UnknownTokens(p) ==
    LET text == call_text(p)
        lowered == {str_lower(o) : o \in Originals(replacements)}
    IN {occ \in (0..Len(text)) \X (2..Len(text)) :
           /\ occ[1] + occ[2] <= Len(text)
           /\ text[occ[1] + 1] = "["
           /\ LET tok == SubSeq(text, occ[1] + 1, occ[1] + occ[2])
              IN PlainToken(tok) /\ str_lower(tok) \notin lowered}

\* The characters of the occurrence are still there, side by side.
Kept(p, occ) ==
    LET cells == concat(doc[p].runs)
        text == call_text(p)
    IN \E q \in 0..(Len(cells) - occ[2]) :
          \A i \in 1..occ[2] : cells[q + i] = <<text[occ[1] + i], occ[1] + i>>

----------------------------------------------------------------------------
(* C14 -- degenerate input is a no-op and never an error: for an empty     *)
(* dict, a paragraph with no runs or only empty text, or a dict that holds *)
(* the empty string as an original (so that the matcher yields empty       *)
(* matches), replace_text_in_document raises no exception, and the empty   *)
(* paragraph and the empty matches add nothing to the count and change no  *)
(* run text.                                                               *)

\* The number of non-empty matches of dict d in the paragraphs 1..n of the
\* input that are not inherited.
RECURSIVE nonempty_matches_upto(_, _)
nonempty_matches_upto(d, n) ==
    IF n = 0 THEN 0
    ELSE LET ms == finditer(d, input_text(n))
         IN nonempty_matches_upto(d, n - 1) +
            (IF Inherited(input[n]) THEN 0
             ELSE Cardinality({j \in 1..Len(ms) : ms[j].group # <<>>}))

Degenerate(d) == d = <<>> \/ <<>> \in Originals(d)

\* The claim as stated; the code raises IndexError for an empty original.
C14_DegenerateIsNoOp ==
    /\ Degenerate(replacements) => pc \notin {"KeyError", "IndexError"}
    /\ \A p \in Paragraphs :
          (input[p].runs = <<>> \/ input_text(p) = <<>>) => doc[p] = input[p]
    /\ (pc = "done" /\ <<>> \in Originals(replacements)) =>
          total = nonempty_matches_upto(replacements, Len(input))

----------------------------------------------------------------------------
(* C15 -- determinism: two runs of replace_text_in_document on identical   *)
(* documents, with the same dict (same entries in the same order) and the  *)
(* same match_case, end the same way, leave identical run texts in every   *)
(* paragraph and return identical counts.                                  *)

Ended == pc \in {"done", "KeyError", "IndexError"}

run_texts(d) == [p \in 1..Len(d) |-> [r \in 1..Len(d[p].runs) |-> run_text(d[p].runs[r])]]

----------------------------------------------------------------------------
(* cloaker.py: building the replacement dict of a cloaking operation.      *)
(* A dict is a sequence of <<key, value>> pairs in insertion order; keys   *)
(* are compared exactly, as str keys of a Python dict are.                 *)

\* The engine is not running.
EngineIdle ==
    /\ doc = <<>>
    /\ input = <<>>
    /\ replacements = <<>>
    /\ first_repl = <<>>
    /\ match_case = FALSE
    /\ pc = "idle"
    /\ cur = 0
    /\ char_map = <<>>
    /\ matches = <<>>
    /\ k = 0
    /\ total = 0
    /\ pass = 0
    /\ last_call = [doc |-> <<>>, total |-> 0, outcome |-> "none"]

\* key in d
dict_has(d, key) == \E i \in 1..Len(d) : d[i][1] = key

\* d[key], for a key of d
dict_get(d, key) == d[CHOOSE i \in 1..Len(d) : d[i][1] = key][2]

\* d[key] = value: an existing key keeps its place and takes the new value.
dict_set(d, key, value) ==
    IF dict_has(d, key)
    THEN [i \in 1..Len(d) |-> IF d[i][1] = key THEN <<key, value>> ELSE d[i]]
    ELSE Append(d, <<key, value>>)

RECURSIVE dict_update(_, _)
\* d.update(other)
dict_update(d, other) ==
    IF other = <<>> THEN d
    ELSE dict_update(dict_set(d, other[1][1], other[1][2]), Tail(other))

\* str.strip()
py_strip(s) ==
    LET black == {i \in 1..Len(s) : ~ch_isspace(s[i])}
    IN IF black = {} THEN <<>>
       ELSE SubSeq(s, CHOOSE i \in black : \A j \in black : i <= j,
                      CHOOSE i \in black : \A j \in black : j <= i)

\* The alternatives of _SUFFIX_PATTERN that the model's letters can spell,
\* an optional period spelled both ways: S\.A\.?, SAS, SpA, SA, ASA, AB.
_CORPORATE_SUFFIXES ==
    { <<"S", ".", "A", ".">>, <<"S", ".", "A">>, <<"S", "A", "S">>, <<"S", "p", "A">>,
      <<"S", "A">>, <<"A", "S", "A">>, <<"A", "B">> }

\* ,?\s+(?:suffix)\s*$ matches at offset pos of name (re.IGNORECASE).
suffix_matches_at(name, pos) ==
    LET rest == py_suffix(name, pos)
        r == IF rest # <<>> /\ rest[1] = "," THEN Tail(rest) ELSE rest
    IN \E n \in 1..Len(r) :
         \E alt \in _CORPORATE_SUFFIXES :
           /\ \A i \in 1..n : ch_isspace(r[i])
           /\ n + Len(alt) <= Len(r)
           /\ str_lower(SubSeq(r, n + 1, n + Len(alt))) = str_lower(alt)
           /\ \A i \in (n + Len(alt) + 1)..Len(r) : ch_isspace(r[i])

\* re.sub(pattern, "", name).strip(): the pattern ends with $, so the
\* leftmost match runs to the end of the name and is the only one.
_strip_corporate_suffix(name) ==
    LET starts == {pos \in 0..(Len(name) - 1) : suffix_matches_at(name, pos)}
    IN py_strip(IF starts = {} THEN name
                ELSE py_prefix(name, CHOOSE pos \in starts : \A q \in starts : pos <= q))

\* f"[{label}]"
placeholder_of(label) == <<"[">> \o label \o <<"]">>

RECURSIVE alias_mappings(_, _)
\* for alias in aliases: mappings[f"[{alias.label}]"] = alias.name
alias_mappings(mappings, aliases) ==
    IF aliases = <<>> THEN mappings
    ELSE alias_mappings(dict_set(mappings, placeholder_of(aliases[1].label), aliases[1].name),
                        Tail(aliases))

\* Lines 50-59: placeholder -> original.
build_mappings(config) ==
    LET m0 == <<>>
        m1 == IF config.party_a_name # <<>>
              THEN dict_set(m0, placeholder_of(config.party_a_label), config.party_a_name)
              ELSE m0
        m2 == IF config.party_b_name # <<>>
              THEN dict_set(m1, placeholder_of(config.party_b_label), config.party_b_name)
              ELSE m1
        m3 == alias_mappings(m2, config.party_a_aliases)
        m4 == alias_mappings(m3, config.party_b_aliases)
    IN dict_update(m4, config.additional_replacements)

RECURSIVE add_short_forms(_, _, _)
\* for sf in short_forms: if sf and sf not in cloak_replacements: ...
add_short_forms(d, short_forms, placeholder) ==
    IF short_forms = <<>> THEN d
    ELSE LET sf == short_forms[1]
         IN add_short_forms(IF sf # <<>> /\ ~dict_has(d, sf)
                            THEN Append(d, <<sf, placeholder>>) ELSE d,
                            Tail(short_forms), placeholder)

\* Lines 61-74: original -> placeholder, then the short forms.
cloak_replacements_before_expansion(config) ==
    LET inverted == invert(build_mappings(config))
        with_a == add_short_forms(inverted, config.party_a_short_forms,
                                  placeholder_of(config.party_a_label))
    IN add_short_forms(with_a, config.party_b_short_forms,
                       placeholder_of(config.party_b_label))

\* The original the loop of _expand_content_replacements turns to next.
original_at(d, i) == IF i <= Len(d) THEN d[i][1] ELSE <<>>

\* The state of cloaker.py before a call.
NoCall ==
    [pc |-> "start", entry |-> "none", config |-> <<>>, mappings |-> <<>>,
     given |-> <<>>, expanded |-> <<>>, idx |-> 0, current |-> <<>>]

\* _build_mappings_and_replacements(config) up to the call of line 76.
\* CloakConfig (models.py) declares no party_a_short_forms and no
\* party_b_short_forms; an object without them makes line 69 raise
\* AttributeError.
BuildMappings(config) ==
    /\ cloak.pc = "start"
    /\ IF config.declares_short_forms
       THEN LET d == cloak_replacements_before_expansion(config)
            IN cloak' = [cloak EXCEPT !.pc = "expand",
                                      !.entry = "config",
                                      !.config = config,
                                      !.mappings = build_mappings(config),
                                      !.given = d,
                                      !.expanded = d,
                                      !.idx = 1,
                                      !.current = original_at(d, 1)]
       ELSE cloak' = [cloak EXCEPT !.pc = "AttributeError",
                                   !.entry = "config",
                                   !.config = config,
                                   !.mappings = build_mappings(config)]
    /\ UNCHANGED <<engine_vars, sessions>>

\* _expand_content_replacements(cloak_replacements) called on its own:
\* expanded = dict(cloak_replacements), lines 179-181.
CallExpand(d) ==
    /\ cloak.pc = "start"
    /\ cloak' = [cloak EXCEPT !.pc = "expand",
                              !.entry = "dict",
                              !.given = d,
                              !.expanded = d,
                              !.idx = 1,
                              !.current = original_at(d, 1)]
    /\ UNCHANGED <<engine_vars, sessions>>

\* Faulty variant: a stripped form overwrites an entry that is already there.
expand_step_overwriting(c) ==
    LET stripped == _strip_corporate_suffix(c.current)
    IN IF stripped = <<>> \/ stripped = c.current
       THEN [c EXCEPT !.idx = c.idx + 1, !.current = original_at(c.given, c.idx + 1)]
       ELSE [c EXCEPT !.expanded = dict_set(c.expanded, stripped, c.given[c.idx][2]),
                      !.current = stripped]

\* One iteration of the while loop of lines 183-189; the break moves on to
\* the next original.
expand_step(c) ==
    LET stripped == _strip_corporate_suffix(c.current)
    IN IF stripped = <<>> \/ stripped = c.current
       THEN [c EXCEPT !.idx = c.idx + 1, !.current = original_at(c.given, c.idx + 1)]
       ELSE [c EXCEPT !.expanded = IF dict_has(c.expanded, stripped)
                                   THEN c.expanded
                                   ELSE Append(c.expanded, <<stripped, c.given[c.idx][2]>>),
                      !.current = stripped]

\* _expand_content_replacements: one iteration of the while loop.
ExpandStrip ==
    /\ cloak.pc = "expand"
    /\ cloak.idx <= Len(cloak.given)
    /\ cloak' = expand_step(cloak)
    /\ UNCHANGED <<engine_vars, sessions>>

\* return expanded (document_text is None: no initialisms)
ExpandReturn ==
    /\ cloak.pc = "expand"
    /\ cloak.idx > Len(cloak.given)
    /\ cloak' = [cloak EXCEPT !.pc = "returned"]
    /\ UNCHANGED <<engine_vars, sessions>>

\* Party names, short forms and dict keys of the cloaker's inputs.
Name_b == <<"b">>

Name_b_AB == <<"b", " ", "A", "B">>

Name_p_sa_ab == <<"p", ",", " ", "s", "a", " ", "a", "b">>

Name_s_SA == <<"s", " ", "S", ".", "A", ".">>

Name_ab == <<"a", "b">>

Name_space_ab == <<" ", "a", "b">>

Name_b_space == <<"b", " ">>

Name_p_sa == <<"p", ",", " ", "s", "a">>

PartyNames == {Name_b, Name_b_AB, Name_p_sa_ab, Name_s_SA}

Labels == {<<"S">>, <<"P">>}

ShortFormLists == {<<>>, <<Name_b>>, <<<<>>, <<"p">>>>}

AliasLists == {<<>>, <<[name |-> <<"s">>, label |-> <<"P">>]>>}

AdditionalReplacements == {<<>>, << <<<<"[", "E", "]">>, <<"b", "b">>>> >>}

Configs ==
    [party_a_name : PartyNames, party_a_label : Labels,
     party_b_name : PartyNames \cup {<<>>}, party_b_label : Labels,
     party_a_aliases : {<<>>}, party_b_aliases : AliasLists,
     additional_replacements : AdditionalReplacements,
     party_a_short_forms : {<<>>, <<<<"s">>>>}, party_b_short_forms : ShortFormLists,
     declares_short_forms : BOOLEAN]

ExpandKeys ==
    {Name_b, Name_b_AB, Name_p_sa_ab, Name_s_SA, Name_ab, Name_space_ab, Name_b_space,
     Name_p_sa}

Placeholders == {placeholder_of(l) : l \in Labels}

\* The dicts handed to _expand_content_replacements directly: one or two
\* entries with different keys.
ExpandDicts ==
    {<< <<k1, p1>> >> : k1 \in ExpandKeys, p1 \in Placeholders} \cup
    {d \in {<< <<k1, p1>>, <<k2, p2>> >> :
               k1 \in ExpandKeys, k2 \in ExpandKeys, p1 \in Placeholders, p2 \in Placeholders} :
        d[1][1] # d[2][1]}

\* No call has been made yet.
InitCloak ==
    /\ EngineIdle
    /\ sessions = [pc |-> "idle"]
    /\ cloak = NoCall

\* A call of _build_mappings_and_replacements with a config, or a call of
\* _expand_content_replacements with a dict.
NextCloak ==
    \/ \E config \in Configs : BuildMappings(config)
    \/ \E d \in ExpandDicts : CallExpand(d)
    \/ ExpandStrip
    \/ ExpandReturn

SpecCloak == InitCloak /\ [][NextCloak]_vars

----------------------------------------------------------------------------
(* C16 *)

\* A call of _build_mappings_and_replacements has returned.
Built == cloak.entry = "config" /\ cloak.pc = "returned"

\* Both parties are named, differently, and carry the same label; the
\* config holds no alias and no additional replacement.
SameLabel(config) ==
    /\ config.party_a_label = config.party_b_label
    /\ config.party_a_aliases = <<>>
    /\ config.party_b_aliases = <<>>
    /\ config.additional_replacements = <<>>
    /\ config.party_a_name # <<>>
    /\ config.party_b_name # <<>>
    /\ config.party_a_name # config.party_b_name

\* C16: when party A and party B are configured with the same label, the
\* replacement dict that _build_mappings_and_replacements returns holds both
\* party names as keys, mapped to two different placeholders of which party
\* A's is its own label, and every party-B short form is mapped to the
\* placeholder of party B's name.
C16_LabelCollisionGuard ==
    (Built /\ SameLabel(cloak.config)) =>
        LET config == cloak.config
            d == cloak.expanded
        IN /\ dict_has(d, config.party_a_name)
           /\ dict_has(d, config.party_b_name)
           /\ dict_get(d, config.party_a_name) = placeholder_of(config.party_a_label)
           /\ dict_get(d, config.party_a_name) # dict_get(d, config.party_b_name)
           /\ \A i \in 1..Len(config.party_b_short_forms) :
                LET sf == config.party_b_short_forms[i]
                IN sf # <<>> =>
                     /\ dict_has(d, sf)
                     /\ dict_get(d, sf) = dict_get(d, config.party_b_name)

----------------------------------------------------------------------------
(* C18 *)

\* The name ends with a corporate suffix: whitespace, a suffix word and
\* nothing but whitespace after it.
HasSuffix(name) == \E pos \in 0..(Len(name) - 1) : suffix_matches_at(name, pos)

RECURSIVE StrippedForms(_)
\* The non-empty forms obtained from a name by stripping trailing corporate
\* suffixes again and again.
StrippedForms(name) ==
    LET stripped == _strip_corporate_suffix(name)
    IN IF stripped = <<>> \/ stripped = name THEN {}
       ELSE {stripped} \cup StrippedForms(stripped)

RECURSIVE LengthsFrom(_, _)
\* The lengths of the originals from the i-th on, one more for each.
LengthsFrom(d, i) ==
    IF i > Len(d) THEN 0 ELSE Len(d[i][1]) + 1 + LengthsFrom(d, i + 1)

\* What the loops still have before them: the form being stripped and the
\* originals not yet begun.
Remaining(c) ==
    Len(c.current) + (IF c.idx <= Len(c.given) THEN 1 ELSE 0) + LengthsFrom(c.given, c.idx + 1)

\* Every iteration either returns or leaves strictly less to do, so the
\* loops end.
Terminates ==
    [][cloak.pc = "expand" =>
         \/ cloak'.pc = "returned"
         \/ cloak'.pc = "expand" /\ Remaining(cloak') < Remaining(cloak)]_cloak

\* (i) every input entry is in the result, at its place, with its placeholder.
InputEntriesKept ==
    /\ Len(cloak.given) <= Len(cloak.expanded)
    /\ \A i \in 1..Len(cloak.given) : cloak.expanded[i] = cloak.given[i]

\* (ii) every stripped form of every input original is a key of the result,
\* with the placeholder of an original it is a form of unless it is an input
\* key itself.
StrippedFormsAdded ==
    \A i \in 1..Len(cloak.given) :
      \A f \in StrippedForms(cloak.given[i][1]) :
        /\ dict_has(cloak.expanded, f)
        /\ \/ dict_has(cloak.given, f)
           \/ \E j \in 1..Len(cloak.given) :
                /\ f \in StrippedForms(cloak.given[j][1])
                /\ dict_get(cloak.expanded, f) = cloak.given[j][2]

\* The keys of the result are different from each other.
KeysUnique ==
    \A i, j \in 1..Len(cloak.expanded) :
        cloak.expanded[i][1] = cloak.expanded[j][1] => i = j

\* C18 as stated, part (iii): a key that was added is a stripped form of an
\* input original that has a suffix to strip.
C18_Expand_AsStated ==
    /\ [](cloak.pc = "returned" =>
            /\ InputEntriesKept
            /\ StrippedFormsAdded
            /\ \A i \in (Len(cloak.given) + 1)..Len(cloak.expanded) :
                 \E j \in 1..Len(cloak.given) :
                   /\ HasSuffix(cloak.given[j][1])
                   /\ cloak.expanded[i][1] \in StrippedForms(cloak.given[j][1]))
    /\ Terminates

\* C18: _expand_content_replacements terminates, and the dict it returns
\* (i) holds every input entry with its placeholder, (ii) holds every
\* non-empty form obtained from an input original by stripping trailing
\* corporate suffixes again and again, and (iii) holds no other key: a key
\* is added only for an original that ends with a suffix or has whitespace
\* around it (the stripped form is also .strip()ped).
C18_Expand ==
    /\ [](cloak.pc = "returned" =>
            /\ InputEntriesKept
            /\ StrippedFormsAdded
            /\ KeysUnique
            /\ \A i \in (Len(cloak.given) + 1)..Len(cloak.expanded) :
                 \E j \in 1..Len(cloak.given) :
                   LET original == cloak.given[j][1]
                   IN /\ HasSuffix(original) \/ py_strip(original) # original
                      /\ cloak.expanded[i][1] \in StrippedForms(original))
    /\ Terminates

\* A call returned a dict with an added key although a stripped form of one
\* original was already the key of an entry with another placeholder.
C18_Witness ==
    /\ cloak.pc = "returned"
    /\ Len(cloak.expanded) > Len(cloak.given)
    /\ \E i \in 1..Len(cloak.given) :
         \E f \in StrippedForms(cloak.given[i][1]) :
           /\ dict_has(cloak.given, f)
           /\ dict_get(cloak.given, f) # cloak.given[i][2]
           /\ dict_get(cloak.expanded, f) = dict_get(cloak.given, f)

----------------------------------------------------------------------------
(* cloaker.py: sanitize_filename. *)

RECURSIVE variants_of(_)
\* Lines 225-229: every entry, followed by its suffix-stripped variant.
variants_of(d) ==
    IF d = <<>> THEN <<>>
    ELSE LET original == d[1][1]
             stripped == _strip_corporate_suffix(original)
         IN <<d[1]>> \o
            (IF stripped # original /\ stripped # <<>> THEN <<<<stripped, d[1][2]>>>> ELSE <<>>) \o
            variants_of(Tail(d))

RECURSIVE sort_variants(_)
\* variants.sort(key=lambda kv: len(kv[0]), reverse=True): stable.
sort_variants(seq) ==
    IF seq = <<>> THEN <<>>
    ELSE LET longest == CHOOSE i \in 1..Len(seq) :
                 /\ \A j \in 1..Len(seq) : Len(seq[j][1]) <= Len(seq[i][1])
                 /\ \A j \in 1..(i-1) : Len(seq[j][1]) < Len(seq[i][1])
             rest == [j \in 1..(Len(seq)-1) |->
                         IF j < longest THEN seq[j] ELSE seq[j+1]]
         IN <<seq[longest]>> \o sort_variants(rest)

RECURSIVE split_on_space(_)
\* re.escape(original).split(r"\ "): the pieces between the spaces.
split_on_space(s) ==
    LET spaces == {i \in 1..Len(s) : s[i] = " "}
    IN IF spaces = {} THEN <<s>>
       ELSE LET first == CHOOSE i \in spaces : \A j \in spaces : i <= j
            IN <<SubSeq(s, 1, first - 1)>> \o split_on_space(SubSeq(s, first + 1, Len(s)))

\* [\s_\-.]
is_separator(c) == ch_isspace(c) \/ c \in {"_", "-", "."}

RECURSIVE match_parts(_, _, _)
\* The end of the match of part [sep]? part [sep]? ... at offset pos of
\* text (re.IGNORECASE), -1 if there is none; the optional separator is
\* greedy and given back when the rest does not match.
match_parts(parts, text, pos) ==
    IF ~OccursAt(parts[1], text, pos) THEN 0 - 1
    ELSE LET after == pos + Len(parts[1])
         IN IF Len(parts) = 1 THEN after
            ELSE LET with_sep == IF after < Len(text) /\ is_separator(text[after + 1])
                                 THEN match_parts(Tail(parts), text, after + 1)
                                 ELSE 0 - 1
                 IN IF with_sep >= 0 THEN with_sep
                    ELSE match_parts(Tail(parts), text, after)

RECURSIVE flexible_sub(_, _, _, _)
\* pattern.sub(placeholder, text) from offset pos on, for a pattern that
\* matches no empty string.
flexible_sub(parts, placeholder, text, pos) ==
    IF pos >= Len(text) THEN <<>>
    ELSE LET end == match_parts(parts, text, pos)
         IN IF end > pos
            THEN placeholder \o flexible_sub(parts, placeholder, text, end)
            ELSE <<text[pos + 1]>> \o flexible_sub(parts, placeholder, text, pos + 1)

RECURSIVE flexible_sub_marks(_, _, _, _, _, _)
\* Which iteration of the loop wrote each character of the result of
\* pattern.sub: j for the characters of a placeholder put in by iteration j,
\* the mark it had for a character that is kept.
flexible_sub_marks(parts, placeholder, text, marks, pos, j) ==
    IF pos >= Len(text) THEN <<>>
    ELSE LET end == match_parts(parts, text, pos)
         IN IF end > pos
            THEN [c \in 1..Len(placeholder) |-> j] \o
                 flexible_sub_marks(parts, placeholder, text, marks, end, j)
            ELSE <<marks[pos + 1]>> \o
                 flexible_sub_marks(parts, placeholder, text, marks, pos + 1, j)

\* sanitize_filename(filename, cloak_replacements), lines 223-230: the
\* variants are built and sorted.
CallSanitize(filename, d) ==
    /\ cloak.pc = "start"
    /\ cloak' = [cloak EXCEPT !.pc = "sub",
                              !.entry = "filename",
                              !.given = d,
                              !.filename = filename,
                              !.variants = sort_variants(variants_of(d)),
                              !.idx = 1,
                              !.current = filename,
                              !.marks = [c \in 1..Len(filename) |-> 0]]
    /\ UNCHANGED <<engine_vars, sessions>>

\* One iteration of the loop of lines 232-238.
SubVariant ==
    /\ cloak.pc = "sub"
    /\ cloak.idx <= Len(cloak.variants)
    /\ cloak' = [cloak EXCEPT
                   !.current = flexible_sub(split_on_space(cloak.variants[cloak.idx][1]),
                                            cloak.variants[cloak.idx][2], cloak.current, 0),
                   !.marks = flexible_sub_marks(split_on_space(cloak.variants[cloak.idx][1]),
                                                cloak.variants[cloak.idx][2], cloak.current,
                                                cloak.marks, 0, cloak.idx),
                   !.idx = cloak.idx + 1]
    /\ UNCHANGED <<engine_vars, sessions>>

\* return filename
SanitizeReturn ==
    /\ cloak.pc = "sub"
    /\ cloak.idx > Len(cloak.variants)
    /\ cloak' = [cloak EXCEPT !.pc = "sanitized"]
    /\ UNCHANGED <<engine_vars, sessions>>

\* "Acme Corporation" and "Acme", each with its own placeholder.
FullAndShort == << <<Name_b_AB, <<"[", "S", "]">>>>, <<Name_b, <<"[", "P", "]">>>> >>

\* Two names of which none is a part of the other.
TwoNames == << <<Name_b, <<"[", "S", "]">>>>, <<<<"a", " ", "a">>, <<"[", "P", "]">>>> >>

\* One name with a suffix.
OneName == << <<<<"a", " ", "A", "B">>, <<"[", "S", "]">>>> >>

\* A short name that occurs, in another letter case, inside the placeholder
\* of the long name.
NameInPlaceholder == << <<<<"a", " ", "a">>, <<"[", "B", "]">>>>, <<Name_b, <<"[", "P", "]">>>> >>

FilenameDicts == {FullAndShort, TwoNames, OneName, NameInPlaceholder}

FilenameChars == {"a", "b", "B", "_", " "}

\* The state of sanitize_filename before the call.
NoFilename ==
    [pc |-> "start", entry |-> "none", given |-> <<>>, filename |-> <<>>,
     variants |-> <<>>, idx |-> 0, current |-> <<>>, marks |-> <<>>]

InitFilename ==
    /\ EngineIdle
    /\ sessions = [pc |-> "idle"]
    /\ cloak = NoFilename

NextFilename ==
    \/ \E filename \in Strings(FilenameChars, MaxTextLen), d \in FilenameDicts :
         CallSanitize(filename, d)
    \/ SubVariant
    \/ SanitizeReturn

SpecFilename == InitFilename /\ [][NextFilename]_vars

----------------------------------------------------------------------------
(* C17 *)

\* sanitize_filename has returned.
Sanitized == cloak.pc = "sanitized"

\* The text is made of underscores only.
Underscores(text) == \A i \in 1..Len(text) : text[i] = "_"

\* The filename is an original, spelled in any letter case, between
\* underscores.
FramedOriginal(filename, original, before, after) ==
    /\ Underscores(before)
    /\ Underscores(after)
    /\ Len(filename) = Len(before) + Len(original) + Len(after)
    /\ SubSeq(filename, 1, Len(before)) = before
    /\ OccursAt(original, filename, Len(before))
    /\ SubSeq(filename, Len(before) + Len(original) + 1, Len(filename)) = after

\* C17: sanitize_filename replaces every case-insensitive occurrence of a
\* party name by its placeholder, longer originals first: a filename that
\* is one original between underscores comes back as that original's
\* placeholder between the same underscores, and the filename returned
\* holds no original.
C17_FilenameSanitized ==
    Sanitized =>
        /\ \A i \in 1..Len(cloak.given) : ~OccursIn(cloak.given[i][1], cloak.current)
        /\ \A i \in 1..Len(cloak.given) :
             \A n \in 0..Len(cloak.filename), m \in 0..Len(cloak.filename) :
               LET before == [j \in 1..n |-> "_"]
                   after == [j \in 1..m |-> "_"]
               IN FramedOriginal(cloak.filename, cloak.given[i][1], before, after) =>
                      cloak.current = before \o cloak.given[i][2] \o after

----------------------------------------------------------------------------
(* sessions.py.  The sessions root is a set of entries                     *)
(* [name, is_dir, stamp, created]: stamp says whether the entry holds a    *)
(* .created file that strptime parses ("ok"), one it does not parse        *)
(* ("unparseable") or none ("missing"); created is the time written in it, *)
(* in hours.  Symbolic links are not modelled.                             *)

\* SESSION_TTL = timedelta(hours=24)
SESSION_TTL == 24

\* The hours that pass between two looks at the clock.
TickHours == 12

\* The clock stops here.
MaxNow == 48

HexChars == {"a", "b", "c", "d", "e", "f", "0", "1", "2", "3", "4", "5", "6", "7", "8", "9"}

SafeFilenameChars ==
    {"a", "b", "c", "d", "e", "f", "g", "h", "i", "j", "k", "l", "m", "n", "o", "p", "q", "r",
     "s", "t", "u", "v", "w", "x", "y", "z", "A", "B", "C", "D", "E", "F", "G", "H", "I", "J",
     "K", "L", "M", "N", "O", "P", "Q", "R", "S", "T", "U", "V", "W", "X", "Y", "Z", "0", "1",
     "2", "3", "4", "5", "6", "7", "8", "9", ".", "_", "-"}

\* _SESSION_ID_RE.match(session_id): ^[a-f0-9]{8}$, where $ also matches
\* before a newline that ends the string.
session_id_ok(id) ==
    /\ Len(id) \in {8, 9}
    /\ \A i \in 1..8 : id[i] \in HexChars
    /\ Len(id) = 9 => id[9] = "\n"

\* _SAFE_FILENAME_RE.match(filename): ^[a-zA-Z0-9._-]+$
filename_ok(filename) ==
    LET n == IF filename # <<>> /\ filename[Len(filename)] = "\n"
             THEN Len(filename) - 1 ELSE Len(filename)
    IN /\ n >= 1
       /\ \A i \in 1..n : filename[i] \in SafeFilenameChars

\* (root / name).is_dir()
is_dir(root, name) == \E e \in root : e.name = name /\ e.is_dir

\* Faulty variant: a directory without a readable timestamp is kept.
expired_only_when_timed(e, now) ==
    e.stamp = "ok" /\ ~(now - e.created < SESSION_TTL)

\* Lines 129-142: expired unless .created is there, parses, and is younger
\* than the TTL.
expired(e, now) ==
    ~(e.stamp = "ok" /\ now - e.created < SESSION_TTL)

\* Faulty variant: the ID's form is not checked, only the directory.
get_session_dir_unchecked(root, id) ==
    IF ~is_dir(root, id) THEN "Session not found" ELSE "path"

\* get_session_dir: the outcome of a call.  An ID the pattern accepts holds
\* no path separator, so root / id resolves inside the root (line 77).
get_session_dir(root, id) ==
    IF ~session_id_ok(id) THEN "Session not found"
    ELSE IF ~is_dir(root, id) THEN "Session not found"
    ELSE "path"

\* get_session_file: the outcome of a call.
get_session_file(root, id, filename) ==
    IF ~filename_ok(filename) THEN "Invalid session filename"
    ELSE get_session_dir(root, id)

\* dir / filename for a filename without a separator: a path is the sequence
\* of its components below the sessions root, and pathlib drops a component ".".
path_join(dir, filename) ==
    IF filename = <<".">> THEN dir ELSE Append(dir, filename)

\* The path get_session_file returns: get_session_dir(session_id) / filename.
session_file_path(id, filename) == path_join(<<id>>, filename)

\* The IDs that uuid.uuid4().hex[:8] yields in the model.
Id_a == [i \in 1..8 |-> "a"]

Id_0 == [i \in 1..8 |-> "0"]

UuidPrefixes == {Id_a, Id_0}

\* Well-formed, never created.
Id_f == [i \in 1..8 |-> "f"]

\* Malformed IDs: upper case, too short, too long, a trailing newline, not
\* hexadecimal, a path.
Id_upper == [i \in 1..8 |-> "A"]

Id_short == [i \in 1..7 |-> "a"]

Id_long == [i \in 1..9 |-> "a"]

Id_newline == Id_a \o <<"\n">>

Id_orphan == <<"o", "r", "p", "h", "a", "n", "0", "0">>

Id_path == <<".", ".", "/", "a">>

RequestedIds ==
    UuidPrefixes \cup {Id_f, Id_upper, Id_short, Id_long, Id_newline, Id_orphan, Id_path, <<>>}

RequestedFilenames ==
    {<<"m", ".", "j">>, <<"a", "/", "b">>, <<>>, <<".">>, <<".", ".">>, <<"m", ".", "j", "\n">>}

\* What may lie in the sessions root besides the sessions of this run: a
\* directory without .created, a session whose .created does not parse, a
\* plain file.
Orphans ==
    { [name |-> Id_orphan, is_dir |-> TRUE, stamp |-> "missing", created |-> 0],
      [name |-> Id_f, is_dir |-> TRUE, stamp |-> "unparseable", created |-> 0],
      [name |-> <<"l", "o", "g">>, is_dir |-> FALSE, stamp |-> "missing", created |-> 0] }

NoSessionCall == [op |-> "none", id |-> <<>>, filename |-> <<>>, outcome |-> "none",
                  removed |-> 0, before |-> {}, at |-> 0, path |-> <<>>]

\* create_session: mkdir(exist_ok=True), then .created is written anew.
create_session(id) ==
    /\ sessions.pc = "serving"
    /\ sessions' = [sessions EXCEPT
         !.root = {e \in sessions.root : e.name # id} \cup
                  {[name |-> id, is_dir |-> TRUE, stamp |-> "ok", created |-> sessions.now]},
         !.last = [NoSessionCall EXCEPT !.op = "create_session", !.id = id,
                                        !.outcome = "id", !.at = sessions.now]]
    /\ UNCHANGED <<engine_vars, cloak>>

\* Time passes.
Tick ==
    /\ sessions.pc = "serving"
    /\ sessions.now + TickHours <= MaxNow
    /\ sessions' = [sessions EXCEPT !.now = sessions.now + TickHours]
    /\ UNCHANGED <<engine_vars, cloak>>

\* cleanup_expired_sessions: the whole loop; rmtree removes what it is
\* given.
cleanup_expired_sessions ==
    /\ sessions.pc = "serving"
    /\ LET gone == {e \in sessions.root : e.is_dir /\ expired(e, sessions.now)}
       IN sessions' = [sessions EXCEPT
            !.root = sessions.root \ gone,
            !.cleaned = sessions.cleaned \cup {e.name : e \in gone},
            !.last = [NoSessionCall EXCEPT !.op = "cleanup_expired_sessions",
                                           !.outcome = "count",
                                           !.removed = Cardinality(gone),
                                           !.before = sessions.root,
                                           !.at = sessions.now]]
    /\ UNCHANGED <<engine_vars, cloak>>

\* A call of get_session_dir.
GetSessionDir(id) ==
    /\ sessions.pc = "serving"
    /\ sessions' = [sessions EXCEPT
         !.last = [NoSessionCall EXCEPT !.op = "get_session_dir", !.id = id,
                                        !.outcome = get_session_dir(sessions.root, id),
                                        !.at = sessions.now]]
    /\ UNCHANGED <<engine_vars, cloak>>

\* A call of get_session_file.
GetSessionFile(id, filename) ==
    /\ sessions.pc = "serving"
    /\ sessions' = [sessions EXCEPT
         !.last = [NoSessionCall EXCEPT !.op = "get_session_file", !.id = id,
                                        !.filename = filename,
                                        !.outcome = get_session_file(sessions.root, id, filename),
                                        !.path = IF get_session_file(sessions.root, id, filename) = "path"
                                                 THEN session_file_path(id, filename)
                                                 ELSE <<>>,
                                        !.at = sessions.now]]
    /\ UNCHANGED <<engine_vars, cloak>>

InitSessions ==
    /\ EngineIdle
    /\ cloak = [pc |-> "idle"]
    /\ \E root \in {{}, Orphans} :
         sessions = [pc |-> "serving", root |-> root, now |-> 0, cleaned |-> {},
                     last |-> NoSessionCall]

NextSessions ==
    \/ \E id \in UuidPrefixes : create_session(id)
    \/ Tick
    \/ cleanup_expired_sessions
    \/ \E id \in RequestedIds : GetSessionDir(id)
    \/ \E id \in RequestedIds, filename \in RequestedFilenames : GetSessionFile(id, filename)

SpecSessions == InitSessions /\ [][NextSessions]_vars

----------------------------------------------------------------------------
(* C19 *)

\* The last call was a cleanup.
CleanedUp == sessions.last.op = "cleanup_expired_sessions"

\* The .created timestamp of the entry is missing or unparseable.
NoTimestamp(e) == e.stamp # "ok"

\* The age of a session at a time, by its .created timestamp.
Age(e, time) == time - e.created

\* The entries the last cleanup removed.
Removed == sessions.last.before \ sessions.root

\* The session directories of the root.
SessionDirs(root) == {e \in root : e.is_dir}

----------------------------------------------------------------------------
(* C20 *)

\* Exactly 8 lowercase hexadecimal characters.
WellFormedId(id) == Len(id) = 8 /\ \A i \in 1..8 : id[i] \in HexChars

\* A directory of that name lies in the sessions root now.
SessionExists(id) == \E e \in sessions.root : e.name = id /\ e.is_dir

\* The last call was get_session_dir, for a session or not.
AskedDir == sessions.last.op = "get_session_dir"

\* The last call was get_session_file.
AskedFile == sessions.last.op = "get_session_file"

----------------------------------------------------------------------------

(* C21 -- the character map is built once per paragraph, from the run      *)
(* texts as they were before any splice, and is not rebuilt; because the   *)
(* matches are spliced in descending order of start offset, at the moment  *)
(* each match is spliced the run index and in-run offset recorded for that *)
(* match's first and last character still designate exactly those          *)
(* characters in the current, partly mutated, run texts.                   *)

\* The cell the pair <<run index, offset>> designates in the current runs of
\* the paragraph, <<>> when the run has no character at that offset.
designated(pair) ==
    LET run == runs_of(cur)[pair[1]]
    IN IF pair[2] + 1 <= Len(run) THEN run[pair[2] + 1] ELSE <<>>

\* The input character at 1-based flat position q of the paragraph, as a cell.
input_cell(q) == <<input_text(cur)[q], q>>

C21_CharMapStaysValid ==
    (pc = "splice" /\ pass = 1) =>
        /\ char_map = _build_char_map(input[cur].runs)
        /\ k > 0 =>
              /\ designated(char_map[this_match.start + 1]) = input_cell(this_match.start + 1)
              /\ designated(char_map[this_match.end]) = input_cell(this_match.end)

\* A match is about to be spliced whose last character lies in a run that an
\* earlier splice, of a match further right, has already changed in length.
C21_Witness ==
    /\ pc = "splice" /\ pass = 1 /\ k > 0 /\ k < Len(matches)
    /\ span_of(this_match) >= 2
    /\ char_map[this_match.end][1] = char_map[matches[k + 1].start + 1][1]
    /\ Len(runs_of(cur)[char_map[this_match.end][1]]) #
           Len(input[cur].runs[char_map[this_match.end][1]])
    /\ designated(char_map[this_match.end]) = input_cell(this_match.end)

----------------------------------------------------------------------------
(* C22 -- when a match spans two or more runs, after the splice the first  *)
(* touched run holds its text before the match start followed by the whole *)
(* replacement, every run strictly between the first and the last touched  *)
(* run has empty text, and the last touched run holds exactly its text     *)
(* after the match end; no other run of the paragraph is written.          *)

\* One splice of a match across runs, seen as a step: the runs before it and
\* the runs after it.
C22_SpliceStep ==
    (pc = "splice" /\ pass = 1 /\ k > 0 /\ k' = k - 1 /\ span_of(this_match) >= 2) =>
        LET m == this_match
            first == char_map[m.start + 1][1]
            last == char_map[m.end][1]
            before == runs_of(cur)
            after == doc'[cur].runs
            BeforeMatch(cell) == cell[2] >= 1 /\ cell[2] <= m.start
            AfterMatch(cell) == cell[2] > m.end \/ cell[2] < 0
        IN /\ Len(after) = Len(before)
           /\ after[first] = SelectSeq(before[first], BeforeMatch) \o
                             written(new_text_for(replacements, match_case, m.group), k)
           /\ \A r \in (first + 1)..(last - 1) : after[r] = <<>>
           /\ after[last] = SelectSeq(before[last], AfterMatch)
           /\ \A r \in 1..Len(before) : (r < first \/ r > last) => after[r] = before[r]

C22_CrossRunPlacement == [][C22_SpliceStep]_vars

\* A match across three runs, the middle one not empty, has been spliced: the
\* first run kept the character before the match and got the replacement, the
\* middle run is empty.
C22_Witness ==
    /\ pc = "splice" /\ pass = 1 /\ k < Len(matches)
    /\ LET m == matches[k + 1]
           first == char_map[m.start + 1][1]
           last == char_map[m.end][1]
       IN /\ last - first >= 2
          /\ input[cur].runs[first + 1] # <<>>
          /\ doc[cur].runs[first + 1] = <<>>
          /\ doc[cur].runs[first][1][2] > 0
          /\ written_for(cur, k + 1) # <<>>
          /\ run_text(doc[cur].runs[first]) =
                 py_prefix(run_text(input[cur].runs[first]), char_map[m.start + 1][2]) \o
                 written_for(cur, k + 1)

----------------------------------------------------------------------------
(* Case transfer on names of several words: the inputs that reach rules 5  *)
(* and 6 of _transfer_case.                                                *)

\* A two-word name whose template is longer than the name.
TwoWordDict == << <<<<"a", " ", "a">>, <<"P", "S", "b", "s">>>> >>

\* A name whose second word has two letters.
LongWordDict == << <<<<"a", " ", "a", "a">>, <<"P", "S", "b", "s">>>> >>

CaseScenarios ==
    { [repl |-> TwoWordDict, alpha |-> {"a", "A", " "}],
      [repl |-> LongWordDict, alpha |-> {"a", "A", " "}] }

InitCase == InitWith(CaseScenarios, {TRUE})

SpecCase == InitCase /\ [][Next]_vars

----------------------------------------------------------------------------
(* C23 -- sentence-case rule of case transfer: when the matched text is    *)
(* not all-uppercase, not all-lowercase and not (strict or loose) title    *)
(* case, and its first character is uppercase, the result is the template  *)
(* with its first character uppercased and all remaining characters        *)
(* lowercased, for every casing of the template.                           *)

\* The matched text is none of all-uppercase, all-lowercase, strict title
\* case and loose title case.
NoUniformCase(g) ==
    ~str_isupper(g) /\ ~str_islower(g) /\ ~str_istitle(g) /\ ~LooseTitle(g)

sentence_cased(t) == <<ch_upper(t[1])>> \o str_lower(Tail(t))

C23_SentenceCase ==
    match_case =>
        \A j \in SplicedMatches :
            LET g == matches[j].group
                t == template_of(matches[j])
            IN (~_is_bracketed_label(t) /\ NoUniformCase(g) /\ ch_isupper(g[1])) =>
                   written_for(cur, j) = sentence_cased(t)

----------------------------------------------------------------------------
(* C24 -- character-by-character rule of case transfer: when the matched   *)
(* text is none of all-uppercase, all-lowercase and title case (strict or  *)
(* loose) and its first character is not uppercase, the result has at each *)
(* position i within the matched text's length the template's character in *)
(* the case class (upper, lower, unchanged for non-letters) of the matched *)
(* text's character i, and at each position beyond that length the case    *)
(* class of the previously produced output character.                      *)

\* Character c put in the case class of character model.
in_case_of(c, model) ==
    IF ch_isupper(model) THEN ch_upper(c)
    ELSE IF ch_islower(model) THEN ch_lower(c)
    ELSE c

\* out is template t transferred character by character from matched text g.
CharByChar(g, t, out) ==
    /\ Len(out) = Len(t)
    /\ \A i \in 1..Len(t) :
          out[i] = in_case_of(t[i], IF i <= Len(g) THEN g[i] ELSE out[i - 1])

\* Only the first character of g is uppercase.
OnlyFirstUpper(g) ==
    ch_isupper(g[1]) /\ \A i \in 2..Len(g) : ~ch_isupper(g[i])

----------------------------------------------------------------------------
(* C25 -- the fallback collapser is never reached:                         *)
(* _replace_preserving_format completes without raising _FallbackNeeded    *)
(* (matches that span three or more runs are spliced directly), so no      *)
(* paragraph's run list is ever replaced by a single collapsed run.        *)

\* The pass is at one of the positions of the format-preserving path.
OnPreservingPath == pc \in {"call", "para", "splice", "done"}

\* A step taken while a match waits to be spliced handles that one match and
\* leaves the paragraph its runs.
C25_DirectSplice ==
    (pc = "splice" /\ k > 0) =>
        /\ pc' = "splice"
        /\ k' = k - 1
        /\ cur' = cur
        /\ Len(doc'[cur].runs) = Len(runs_of(cur))
        /\ \A p \in Paragraphs : p # cur => doc'[p] = doc[p]

----------------------------------------------------------------------------
(* cloaker.py: cloak_document, from the building of the replacement dict   *)
(* (step 3) to the saving of the mapping file (step 7).  Step 3b           *)
(* (sanitize_filename) reads the dict and changes nothing in it; the XML   *)
(* pass, the metadata and the comments of steps 5 and 6 are left out.      *)

\* str.strip("[]")
strip_brackets(s) ==
    LET inner == {i \in 1..Len(s) : s[i] \notin {"[", "]"}}
    IN IF inner = {} THEN <<>>
       ELSE SubSeq(s, CHOOSE i \in inner : \A j \in inner : i <= j,
                      CHOOSE i \in inner : \A j \in inner : j <= i)

Digits == <<"0", "1", "2", "3", "4", "5", "6", "7", "8", "9">>

RECURSIVE py_str(_)
\* str(n) of a natural number
py_str(n) ==
    IF n < 10 THEN <<Digits[n + 1]>>
    ELSE py_str(n \div 10) \o <<Digits[(n % 10) + 1]>>

\* f"[{label}-Short]"
short_candidate(label) == <<"[">> \o label \o <<"-", "S", "h", "o", "r", "t", "]">>

\* f"[{label}-Short-{n}]"
short_numbered(label, n) ==
    <<"[">> \o label \o <<"-", "S", "h", "o", "r", "t", "-">> \o py_str(n) \o <<"]">>

\* Faulty variant: the candidate returned without looking at the placeholders
\* in use.
make_short_placeholder_unchecked(base_placeholder, existing_placeholders) ==
    short_candidate(strip_brackets(base_placeholder))

_make_short_placeholder(base_placeholder, existing_placeholders) ==
    LET label == strip_brackets(base_placeholder)
        RECURSIVE search(_)
        search(n) ==
            IF short_numbered(label, n) \in existing_placeholders
            THEN search(n + 1)
            ELSE short_numbered(label, n)
    IN IF short_candidate(label) \notin existing_placeholders
       THEN short_candidate(label)
       ELSE search(2)

\* set(d.values()) and set(d.keys())
dict_values(d) == {d[i][2] : i \in 1..Len(d)}

dict_keys(d) == {d[i][1] : i \in 1..Len(d)}

\* The state of cloak_document before the call.
NoDocumentCall ==
    [pc |-> "start", entry |-> "none", config |-> <<>>, mappings |-> <<>>,
     given |-> <<>>, expanded |-> <<>>, idx |-> 0, current |-> <<>>,
     cloak_replacements |-> <<>>, base_originals |-> {}, existing_placeholders |-> {},
     originals |-> <<>>, i |-> 0, saved |-> <<>>]

\* Step 3c, lines 329-330, after _build_mappings_and_replacements returned:
\* the two sets and the list(cloak_replacements.keys()) the loop walks.
StartShort ==
    /\ cloak.pc = "returned"
    /\ cloak.entry = "config"
    /\ cloak' = [cloak EXCEPT !.pc = "short",
                              !.cloak_replacements = cloak.expanded,
                              !.base_originals = dict_values(cloak.mappings),
                              !.existing_placeholders = dict_keys(cloak.mappings),
                              !.originals = keys(cloak.expanded),
                              !.i = 1]
    /\ UNCHANGED <<engine_vars, sessions>>

\* One iteration of the loop of lines 331-337.
AssignShort ==
    /\ cloak.pc = "short"
    /\ cloak.i <= Len(cloak.originals)
    /\ LET original == cloak.originals[cloak.i]
           old_placeholder == dict_get(cloak.cloak_replacements, original)
           new_placeholder == _make_short_placeholder(old_placeholder,
                                                      cloak.existing_placeholders)
       IN IF original \notin cloak.base_originals
          THEN cloak' = [cloak EXCEPT
                   !.cloak_replacements = dict_set(@, original, new_placeholder),
                   !.mappings = dict_set(@, new_placeholder, original),
                   !.existing_placeholders = @ \cup {new_placeholder},
                   !.i = @ + 1]
          ELSE cloak' = [cloak EXCEPT !.i = @ + 1]
    /\ UNCHANGED <<engine_vars, sessions>>

\* Step 4, line 340: replace_text_in_document(doc, cloak_replacements) is
\* called on the document loaded at step 1, match_case at its default True.
ApplyReplacements(document) ==
    /\ cloak.pc = "short"
    /\ cloak.i > Len(cloak.originals)
    /\ pc = "idle"
    /\ cloak' = [cloak EXCEPT !.pc = "apply"]
    /\ doc' = document
    /\ input' = document
    /\ replacements' = cloak.cloak_replacements
    /\ first_repl' = cloak.cloak_replacements
    /\ match_case' = TRUE
    /\ pc' = "call"
    /\ pass' = 1
    /\ UNCHANGED <<cur, char_map, matches, k, total, last_call, sessions>>

\* Step 7, lines 390-396: the mapping file is written from mappings once the
\* replacement pass has returned.
SaveMapping ==
    /\ cloak.pc = "apply"
    /\ pc = "done"
    /\ cloak' = [cloak EXCEPT !.pc = "saved", !.saved = cloak.mappings]
    /\ UNCHANGED <<engine_vars, sessions>>

Name_B == <<"B">>

\* An alias whose name is the empty string.
EmptyAlias == [name |-> <<>>, label |-> <<"E">>]

\* An entity the user confirmed under a placeholder that reads like a short
\* form's.
ShortLikeReplacement == << <<<<"[", "S", "-", "S", "h", "o", "r", "t", "]">>, <<"p">>>> >>

DocumentConfigs ==
    [party_a_name : {Name_b_AB, Name_s_SA}, party_a_label : {<<"S">>},
     party_b_name : {Name_B, Name_b, <<>>}, party_b_label : Labels,
     party_a_aliases : {<<>>}, party_b_aliases : {<<>>, <<EmptyAlias>>},
     additional_replacements : {<<>>, ShortLikeReplacement},
     party_a_short_forms : {<<>>}, party_b_short_forms : {<<>>, <<Name_b>>},
     declares_short_forms : BOOLEAN]

DocumentTexts == {<<"B">>, <<"b", " ", "A", "B">>, <<"p", "b">>}

\* Documents of one body paragraph, its text cut into runs in every way.
Documents ==
    {<<[kind |-> "body", is_linked_to_previous |-> FALSE, runs |-> runs]>> :
        runs \in UNION {RunLists(text) : text \in DocumentTexts}}

InitCloakDocument ==
    /\ EngineIdle
    /\ sessions = [pc |-> "idle"]
    /\ cloak = NoDocumentCall

NextCloakDocument ==
    \/ \E config \in DocumentConfigs : BuildMappings(config)
    \/ ExpandStrip
    \/ ExpandReturn
    \/ StartShort
    \/ AssignShort
    \/ \E document \in Documents : ApplyReplacements(document)
    \/ Next
    \/ Raise
    \/ SaveMapping

SpecCloakDocument == InitCloakDocument /\ [][NextCloakDocument]_vars

----------------------------------------------------------------------------
(* C26 -- distinct placeholders for variants in cloak_document: after step *)
(* 3c every original of the replacement dict that is not a primary mapping *)
(* value has a placeholder made by _make_short_placeholder that differs    *)
(* from every placeholder already in use ("-Short", "-Short-2", ...), no   *)
(* two originals of the final dict share a placeholder, and for every      *)
(* entry original -> placeholder the saved mapping has                     *)
(* mappings[placeholder] = original.                                       *)

\* Step 3c is over.
ShortsAssigned ==
    \/ cloak.pc = "short" /\ cloak.i > Len(cloak.originals)
    \/ cloak.pc \in {"apply", "saved"}

\* The end of a placeholder that _make_short_placeholder makes.
IsShortPlaceholder(p) ==
    \E label \in {SubSeq(p, 2, n) : n \in 1..Len(p)} :
        \/ p = short_candidate(label)
        \/ \E n \in 2..(Len(cloak.originals) + 2) : p = short_numbered(label, n)

C26_DistinctPlaceholders ==
    ShortsAssigned =>
        LET d == cloak.cloak_replacements
            primary == build_mappings(cloak.config)
        IN /\ \A e \in 1..Len(d) :
                 d[e][1] \notin dict_values(primary) =>
                     /\ IsShortPlaceholder(d[e][2])
                     /\ d[e][2] \notin dict_keys(primary)
                     /\ d[e][2] \notin dict_values(cloak.expanded)
           /\ \A e1, e2 \in 1..Len(d) : d[e1][2] = d[e2][2] => e1 = e2
           /\ \A e \in 1..Len(d) :
                 /\ dict_has(cloak.mappings, d[e][2])
                 /\ dict_get(cloak.mappings, d[e][2]) = d[e][1]
           /\ cloak.pc = "saved" => cloak.saved = cloak.mappings

\* The mapping was saved for a dict in which two variants of the same name
\* got "-Short" and "-Short-2".
C26_Witness ==
    /\ cloak.pc = "saved"
    /\ \E e1, e2 \in 1..Len(cloak.cloak_replacements) :
          LET p1 == cloak.cloak_replacements[e1][2]
              p2 == cloak.cloak_replacements[e2][2]
          IN /\ p1 = short_candidate(<<"S">>)
             /\ p2 = short_numbered(<<"S">>, 2)
             /\ dict_get(cloak.saved, p1) = cloak.cloak_replacements[e1][1]
             /\ dict_get(cloak.saved, p2) = cloak.cloak_replacements[e2][1]
             /\ dict_get(cloak.expanded, cloak.cloak_replacements[e1][1]) =
                    dict_get(cloak.expanded, cloak.cloak_replacements[e2][1])

----------------------------------------------------------------------------
(* C27 -- the replacement dict that cloak_document builds from a           *)
(* CloakConfig and hands to replace_text_in_document satisfies the         *)
(* engine's precondition: it has no empty original and no two originals    *)
(* that are equal case-insensitively, so the lowercased lookup has exactly *)
(* one entry per dict entry.                                               *)

\* The keys of the lookup of line 222: the originals lowercased.
lookup_keys(d) == {str_lower(d[e][1]) : e \in 1..Len(d)}

C27_PreconditionMet ==
    cloak.pc = "apply" =>
        /\ ValidDict(replacements)
        /\ Cardinality(lookup_keys(replacements)) = Len(replacements)

----------------------------------------------------------------------------
(* The same document replaced twice, the second time with the entries of   *)
(* the dict inserted in another order.                                     *)

\* Three originals, two of them of equal length.
EqualLengthDict ==
    << <<<<"a", "b">>, <<"p">>>>, <<<<"b", "a">>, <<"[", "S", "]">>>>, <<<<"b">>, <<"s">>>> >>

OrderScenarios ==
    { [repl |-> LabelDict, alpha |-> {"a", "b"}],
      [repl |-> EqualLengthDict, alpha |-> {"a", "b", "B"}] }

\* The dicts that hold the entries of d in some insertion order.
Reordered(d) ==
    {[e \in 1..Len(d) |-> d[order[e]]] :
        order \in {f \in [1..Len(d) -> 1..Len(d)] : \A e1, e2 \in 1..Len(d) : f[e1] = f[e2] => e1 = e2}}

\* replace_text_in_document called on the same input with the dict other_order.
CallReordered(other_order) ==
    /\ pc = "done"
    /\ pass = 1
    /\ pass' = 4
    /\ last_call' = [doc |-> doc, total |-> total, outcome |-> pc]
    /\ doc' = input
    /\ replacements' = other_order
    /\ pc' = "call"
    /\ UNCHANGED <<input, match_case, cur, char_map, matches, k,
                   total, first_repl, cloak, sessions>>

InitOrder == InitWith(OrderScenarios, BOOLEAN)

NextOrder ==
    \/ Next
    \/ \E other_order \in Reordered(replacements) : CallReordered(other_order)

SpecOrder == InitOrder /\ [][NextOrder]_vars

----------------------------------------------------------------------------
(* C28 -- order independence: for dicts whose originals are non-empty and  *)
(* case-insensitively unique, the run texts and the count that             *)
(* replace_text_in_document produces do not depend on the insertion order  *)
(* of the dict entries.                                                    *)

C28_OrderIndependent ==
    (pass = 4 /\ pc = "done" /\ ValidDict(first_repl)) =>
        /\ run_texts(doc) = run_texts(last_call.doc)
        /\ total = last_call.total

\* The second call, with the two originals of equal length in the other
\* order, replaced matches of both and returned what the first call returned.
C28_Witness ==
    /\ pass = 4 /\ pc = "done"
    /\ Len(replacements) = 3
    /\ keys(replacements) # keys(first_repl)
    /\ sorted_targets(replacements) # sorted_targets(first_repl)
    /\ total >= 2
    /\ \E m1, m2 \in 1..Len(input_matches(1)) :
          Len(input_matches(1)[m1].group) = 2 /\
          str_lower(input_matches(1)[m1].group) # str_lower(input_matches(1)[m2].group)
    /\ run_texts(doc) # run_texts(input)
    /\ run_texts(doc) = run_texts(last_call.doc)
    /\ total = last_call.total

----------------------------------------------------------------------------
(* C29 -- session file containment: for every existing session and every   *)
(* filename that get_session_file accepts (non-empty, only letters,        *)
(* digits, '.', '_' and '-') the returned path designates an entry         *)
(* directly inside that session's own directory, never the session         *)
(* directory itself, the sessions root or another session's directory;     *)
(* every other filename is rejected with ValueError.                       *)

RECURSIVE entry_of(_)
\* The entry below the sessions root that a path designates when it is
\* opened: a component ".." leads to the parent directory.
entry_of(path) ==
    IF path = <<>> THEN <<>>
    ELSE LET parent == entry_of(SubSeq(path, 1, Len(path) - 1))
             last == path[Len(path)]
         IN IF last = <<".", ".">>
            THEN SubSeq(parent, 1, Len(parent) - 1)
            ELSE Append(parent, last)

\* Non-empty, only letters, digits, '.', '_' and '-'.
SimpleFilename(filename) ==
    filename # <<>> /\ \A c \in 1..Len(filename) : filename[c] \in SafeFilenameChars

C29_FileInsideSession ==
    sessions.last.op = "get_session_file" =>
        LET id == sessions.last.id
            filename == sessions.last.filename
            entry == entry_of(sessions.last.path)
        IN IF SimpleFilename(filename)
           THEN (WellFormedId(id) /\ SessionExists(id)) =>
                   /\ sessions.last.outcome = "path"
                   /\ Len(entry) = 2
                   /\ entry[1] = id
           ELSE sessions.last.outcome = "Invalid session filename"

----------------------------------------------------------------------------
(* C30 -- sanitize_filename never rewrites its own output: once an         *)
(* occurrence has been replaced by a placeholder, the characters of that   *)
(* inserted placeholder are not changed by the later replacements (of      *)
(* shorter originals) in the same call, so every placeholder inserted      *)
(* appears intact in the returned filename.                                *)

\* The number of characters of the filename that iteration j wrote.
written_by(c, j) == Cardinality({n \in 1..Len(c.marks) : c.marks[n] = j})

\* A later iteration of the loop leaves the characters that an earlier
\* iteration wrote.
C30_InsertedKept ==
    (cloak.pc = "sub" /\ cloak'.pc = "sub") =>
        \A j \in 1..(cloak.idx - 1) : written_by(cloak', j) = written_by(cloak, j)

C30_OutputNotRewritten == [][C30_InsertedKept]_vars

====
